---- MODULE Spec2Model ----
(***************************************************************************)
(* The FTP connection registry of src/ftp/ftp_server.py: the lifespan      *)
(* context (connections, current_connection), the tool handlers that       *)
(* mutate or read it, and the ftplib transports they drive.                *)
(*                                                                         *)
(* Handlers run one at a time here (Spec): every action is one whole       *)
(* handler invocation, from its first line to its return.  The awaited     *)
(* ctx.info / ctx.error / ctx.warning calls are log notifications to the   *)
(* client; they are taken to return normally.                              *)
(*                                                                         *)
(* A transport (ftplib.FTP object) is a record                             *)
(*   serial : the identity of the object (the order FTP() was called in)   *)
(*   st     : "live"   socket open, the server answers commands            *)
(*            "dead"   socket open, the server no longer answers           *)
(*            "closed" no socket (FTP() before connect, or after close)    *)
(*   auth   : login() has succeeded on it                                  *)
(*   cwd    : the remote working directory of the session                  *)
(* connections is a Python dict: a sequence of [id, ftp] entries in        *)
(* insertion order with pairwise distinct ids.                             *)
(* nextFtp is the serial of the next FTP() object.  An FTP object no dict   *)
(* entry refers to any more (a failed connect, a removed or an             *)
(* overwritten entry) is out of the program's reach and is not kept.       *)
(*                                                                         *)
(* pre and last observe the run: pre is the registry as the last handler   *)
(* found it, last is that handler's name, argument, result and the calls   *)
(* it made on transports (cmds), in order.                                 *)
(*                                                                         *)
(* The other specifications look at what Spec leaves out.  SpecMutators    *)
(* (connect, disconnect, switch) and SpecConc (the handlers of one         *)
(* session) run handlers concurrently, as the asyncio event loop does: a   *)
(* handler runs alone from one awaited call to the next and may be         *)
(* suspended at each of them; tasks holds the suspended handlers' frames.  *)
(* There and in SpecShutdown, which adds the teardown of ftp_lifespan,     *)
(* detached keeps the FTP objects that left the dict (a handler may still  *)
(* hold one, and its socket stays open until somebody closes it).  Under   *)
(* Spec both stay empty.  SpecList is ftp_list_directory on one session;   *)
(* remote is the content of the directory the server lists, a sequence of  *)
(* [name, kind] entries in the order the server sends them.  Names and     *)
(* reply lines are Python strings, modelled as sequences of character      *)
(* codes.                                                                  *)
(*                                                                         *)
(* SpecContent is ftp_download_content on one session.                     *)
(* SpecTransfer is the file transfers of one session: local maps a local   *)
(* path to <<>> (no such file) or <<bytes>>, site.files does the same for  *)
(* the names on the server, and bytes are sequences of byte values.        *)
(* SpecTree is ftp_create_directory_tree; site.dirs is the set of          *)
(* directories on the server, by the name MKD was given.  SpecExplore is   *)
(* ftp_explore_directory, SpecParse the parse of one LIST line.            *)
(* SpecTavily is the search server of src/tavily-internet/tavily_server.py *)
(* (a process of its own): tavily is its lifespan context, the API key     *)
(* found in the environment and the client made from it.                   *)
(***************************************************************************)
EXTENDS Naturals, Sequences, FiniteSets

VARIABLES connections, current_connection, nextFtp, pre, last, tasks, detached, remote,
          local, site, tavily

vars == <<connections, current_connection, nextFtp, pre, last, tasks, detached, remote,
          local, site, tavily>>

\* What lies outside the FTP registry and the listed directory.
outside == <<local, site, tavily>>

\* Bound: how many ftplib.FTP() objects the handlers create in one run.
MaxFtp == 3

\* connection_id is any str; the empty string is one.
Ids == {"", "a", "b"}

\* Optional[str] = None (no element of Ids).
None == "None"

\* A remote path given to the file and directory handlers.
Paths == {"/d/f"}

\* Remote directories that exist, and the arguments tried with cwd.
Dirs == {"/", "/d"}

DirArgs == Dirs \cup {"/nx"}

\* What the server and the network do to one ftp_connect call.
ConnectOutcomes == {"ok", "connect_fail", "connect_perm", "login_perm", "login_fail"}

\* Python truthiness of an Optional[str]: None and "" are falsy.
Falsy(x) == x = None \/ x = ""

----
\* dict helpers (insertion-ordered, unique keys)

Keys(conns) == {conns[i].id : i \in DOMAIN conns}

IndexOf(conns, id) == CHOOSE i \in DOMAIN conns : conns[i].id = id

Lookup(conns, id) == conns[IndexOf(conns, id)].ftp

\* d[id] = ftp: an existing key keeps its position, a new key goes last.
DictSet(conns, id, ftp) ==
  IF id \in Keys(conns)
    THEN [conns EXCEPT ![IndexOf(conns, id)].ftp = ftp]
    ELSE Append(conns, [id |-> id, ftp |-> ftp])

\* del d[id]
DictDel(conns, id) ==
  LET k == IndexOf(conns, id)
  IN  SubSeq(conns, 1, k - 1) \o SubSeq(conns, k + 1, Len(conns))

\* The mapping id -> transport object, without the transports' own state.
Mapping(conns) == [i \in DOMAIN conns |-> [id |-> conns[i].id, serial |-> conns[i].ftp.serial]]

Registry == [connections |-> connections, current_connection |-> current_connection]

----
\* ftplib

\* Local file paths of the transfer handlers (no directory part), and the
\* names on the server: a path left out defaults to the other side's name.
LocalPaths == {"in", "out"}
RemoteNames == LocalPaths

\* ftplib.FTP(): no socket yet.
NewFtp(serial) == [serial |-> serial, st |-> "closed", auth |-> FALSE, cwd |-> "/"]

\* A command (voidcmd, sendcmd, pwd, ...) gets its reply exactly on a live transport.
voidcmd_ok(ftp) == ftp.st = "live"

Cmd(ftp, name, ok) == [serial |-> ftp.serial, cmd |-> name, ok |-> ok]

Ret(op, arg, result, cmds) ==
  [op |-> op, arg |-> arg, result |-> result, text |-> "", status |-> <<>>, cmds |-> cmds]

----
Init ==
  /\ connections = <<>>
  /\ current_connection = None
  /\ nextFtp = 1
  /\ pre = [connections |-> <<>>, current_connection |-> None]
  /\ last = Ret("init", None, "Ok", <<>>)
  /\ tasks = <<>>
  /\ detached = {}
  /\ remote = <<>>
  /\ local = [p \in LocalPaths |-> <<>>]
  /\ site = [files |-> [p \in RemoteNames |-> <<>>], dirs |-> {}]
  /\ tavily = [serving |-> FALSE, api_key |-> None, client |-> None]

----
\* ftp_connect

\* The new transport after ftp.connect, ftp.set_pasv and ftp.login.
connect_transport(ftp, outcome) ==
  CASE outcome \in {"connect_fail", "connect_perm"} -> ftp
    [] outcome = "login_perm" -> [ftp EXCEPT !.st = "live"]
    [] outcome = "login_fail" -> [ftp EXCEPT !.st = "dead"]
    [] OTHER -> [ftp EXCEPT !.st = "live", !.auth = TRUE]

connect_cmds(ftp, outcome) ==
  IF outcome \in {"connect_fail", "connect_perm"}
    THEN <<Cmd(ftp, "connect", FALSE)>>
    ELSE <<Cmd(ftp, "connect", TRUE), Cmd(ftp, "login", outcome = "ok")>>

\* Faulty variant: connections.setdefault(connection_id, ftp), which keeps the
\* transport an existing id already has.
connect_registry_setdefault(reg, connection_id, ftp, outcome) ==
  IF outcome = "ok"
    THEN [connections |-> IF connection_id \in Keys(reg.connections)
                            THEN reg.connections
                            ELSE DictSet(reg.connections, connection_id, ftp),
          current_connection |-> connection_id]
    ELSE reg

\* Faulty variant: the store placed before ftp.login, so a refused login leaves the entry.
connect_registry_early(reg, connection_id, ftp, outcome) ==
  IF outcome \in {"ok", "login_perm", "login_fail"}
    THEN [connections |-> DictSet(reg.connections, connection_id, ftp),
          current_connection |-> connection_id]
    ELSE reg

\* The store comes after login: an exception before it skips it.
connect_registry(reg, connection_id, ftp, outcome) ==
  IF outcome = "ok"
    THEN [connections |-> DictSet(reg.connections, connection_id, ftp),
          current_connection |-> connection_id]
    ELSE reg

\* except ftplib.error_perm / except Exception
connect_result(outcome) ==
  CASE outcome = "ok" -> "Connected"
    [] outcome \in {"connect_perm", "login_perm"} -> "AuthenticationFailed"
    [] OTHER -> "ConnectionFailed"

ftp_connect(connection_id, outcome) ==
  /\ nextFtp <= MaxFtp
  /\ LET ftp == connect_transport(NewFtp(nextFtp), outcome)
         reg == connect_registry(Registry, connection_id, ftp, outcome)
     IN  /\ connections' = reg.connections
         /\ current_connection' = reg.current_connection
         /\ last' = Ret("ftp_connect", connection_id, connect_result(outcome),
                        connect_cmds(ftp, outcome))
  /\ nextFtp' = nextFtp + 1
  /\ pre' = Registry

----
\* ftp_disconnect

\* connection_id defaults to the current connection.
disconnect_target(connection_id, current) ==
  IF connection_id = None THEN current ELSE connection_id

\* try: ftp.quit()  except Exception: ftp.close()
\* quit sends QUIT and then closes; it raises when the command gets no reply.
\* close drops the socket; closing an open socket may itself raise (OSError),
\* a transport without socket closes silently.
close_transport(ftp, close_raises) ==
  IF voidcmd_ok(ftp)
    THEN [ftp |-> [ftp EXCEPT !.st = "closed"], raised |-> FALSE,
          cmds |-> <<Cmd(ftp, "quit", TRUE)>>]
    ELSE LET raised == ftp.st # "closed" /\ close_raises
         IN  [ftp |-> [ftp EXCEPT !.st = "closed"], raised |-> raised,
              cmds |-> <<Cmd(ftp, "quit", FALSE), Cmd(ftp, "close", ~raised)>>]

\* Faulty variant: remaining_connections[-1] instead of remaining_connections[0].
promote_last(remaining) ==
  IF remaining = <<>> THEN None ELSE remaining[Len(remaining)].id

\* remaining_connections[0] if remaining_connections else None
promote(remaining) ==
  IF remaining = <<>> THEN None ELSE remaining[1].id

\* Faulty variant: the transport is closed and its entry stays in the dict.
disconnect_registry_keep(reg, target) == reg

\* Faulty variant: the entry is deleted and current_connection is left as it was.
disconnect_registry_stale(reg, target) ==
  [connections |-> DictDel(reg.connections, target),
   current_connection |-> reg.current_connection]

\* Faulty variant: the first remaining entry becomes current whichever entry
\* was removed.
disconnect_registry_promote(reg, target) ==
  LET remaining == DictDel(reg.connections, target)
  IN  [connections |-> remaining, current_connection |-> promote(remaining)]

\* del connections[connection_id], then the update of current_connection.
disconnect_registry(reg, target) ==
  LET remaining == DictDel(reg.connections, target)
  IN  [connections |-> remaining,
       current_connection |->
         IF reg.current_connection = target
           THEN promote(remaining)
           ELSE reg.current_connection]

ftp_disconnect(connection_id, close_raises) ==
  LET target == disconnect_target(connection_id, current_connection)
  IN  /\ pre' = Registry
      /\ UNCHANGED nextFtp
      /\ IF Falsy(target)
           THEN /\ UNCHANGED <<connections, current_connection>>
                /\ last' = Ret("ftp_disconnect", connection_id, "NoActive", <<>>)
         ELSE IF target \notin Keys(connections)
           THEN /\ UNCHANGED <<connections, current_connection>>
                /\ last' = Ret("ftp_disconnect", connection_id, "NotFound", <<>>)
         ELSE LET c == close_transport(Lookup(connections, target), close_raises)
                  reg == disconnect_registry(Registry, target)
              IN  IF c.raised
                    THEN /\ connections' = DictSet(connections, target, c.ftp)
                         /\ UNCHANGED current_connection
                         /\ last' = Ret("ftp_disconnect", connection_id,
                                        "ErrorDisconnecting", c.cmds)
                    ELSE /\ connections' = reg.connections
                         /\ current_connection' = reg.current_connection
                         /\ last' = Ret("ftp_disconnect", connection_id,
                                        "Disconnected", c.cmds)

----
\* ftp_list_connections, ftp_switch_connection, _get_current_ftp

\* The NOOP probes of a loop over connections.items().
noop_probes(conns) ==
  [i \in DOMAIN conns |-> Cmd(conns[i].ftp, "NOOP", voidcmd_ok(conns[i].ftp))]

\* Faulty variant: the " (Current)" mark decided before, and whatever, the probe.
conn_status_unprobed(ftp, conn_id, current) ==
  IF conn_id = current THEN "Active (Current)"
  ELSE IF voidcmd_ok(ftp) THEN "Active"
  ELSE "Disconnected"

conn_status(ftp, conn_id, current) ==
  IF voidcmd_ok(ftp)
    THEN IF conn_id = current THEN "Active (Current)" ELSE "Active"
    ELSE "Disconnected"

list_connections(conns, current) ==
  [i \in DOMAIN conns |->
     [id |-> conns[i].id, status |-> conn_status(conns[i].ftp, conns[i].id, current)]]

\* Faulty variant: the listing drops the entries whose probe raised.
ftp_list_connections_reap ==
  /\ pre' = Registry
  /\ last' = [Ret("ftp_list_connections", None, "Ok", noop_probes(connections))
                EXCEPT !.status = list_connections(connections, current_connection)]
  /\ connections' = SelectSeq(connections, LAMBDA e : voidcmd_ok(e.ftp))
  /\ UNCHANGED <<current_connection, nextFtp>>

ftp_list_connections ==
  /\ pre' = Registry
  /\ last' = [Ret("ftp_list_connections", None, "Ok", noop_probes(connections))
                EXCEPT !.status = list_connections(connections, current_connection)]
  /\ UNCHANGED <<connections, current_connection, nextFtp>>

switch_result(reg, connection_id) ==
  IF connection_id \notin Keys(reg.connections) THEN "NotFound"
  ELSE IF voidcmd_ok(Lookup(reg.connections, connection_id)) THEN "Switched"
  ELSE "Stale"

\* Faulty variant: current_connection assigned before the NOOP probe.
switch_current_early(reg, connection_id) ==
  IF connection_id \notin Keys(reg.connections) THEN reg.current_connection
  ELSE connection_id

\* Faulty variant: the probe is made and current_connection is never assigned.
switch_current_never(reg, connection_id) == reg.current_connection

\* current_connection is assigned after the NOOP, inside the try.
switch_current(reg, connection_id) ==
  IF connection_id \notin Keys(reg.connections) THEN reg.current_connection
  ELSE IF voidcmd_ok(Lookup(reg.connections, connection_id)) THEN connection_id
  ELSE reg.current_connection

switch_cmds(reg, connection_id) ==
  IF connection_id \notin Keys(reg.connections) THEN <<>>
  ELSE LET ftp == Lookup(reg.connections, connection_id)
       IN  <<Cmd(ftp, "NOOP", voidcmd_ok(ftp))>>

ftp_switch_connection(connection_id) ==
  /\ pre' = Registry
  /\ current_connection' = switch_current(Registry, connection_id)
  /\ last' = Ret("ftp_switch_connection", connection_id,
                 switch_result(Registry, connection_id),
                 switch_cmds(Registry, connection_id))
  /\ UNCHANGED <<connections, nextFtp>>

\* "Ok" with the transport's serial, or the ValueError raised.
get_current_ftp(reg) ==
  IF Falsy(reg.current_connection)
    THEN [result |-> "NoActive", serial |-> 0]
  ELSE IF reg.current_connection \notin Keys(reg.connections)
    THEN [result |-> "NotFound", serial |-> 0]
  ELSE [result |-> "Ok",
        serial |-> Lookup(reg.connections, reg.current_connection).serial]

----
\* Handlers that work through the current session

ftp_pwd ==
  LET r == get_current_ftp(Registry)
      ftp == Lookup(connections, current_connection)
  IN  /\ pre' = Registry
      /\ last' = IF r.result # "Ok" THEN Ret("ftp_pwd", None, "Error", <<>>)
                 ELSE IF voidcmd_ok(ftp)
                   THEN [Ret("ftp_pwd", None, "Ok", <<Cmd(ftp, "PWD", TRUE)>>)
                           EXCEPT !.text = ftp.cwd]
                 ELSE Ret("ftp_pwd", None, "Error", <<Cmd(ftp, "PWD", FALSE)>>)
      /\ UNCHANGED <<connections, current_connection, nextFtp>>

\* ftp.cwd(directory) is refused (error_perm) for a directory that does not exist.
ftp_cwd(directory) ==
  LET r == get_current_ftp(Registry)
      ftp == Lookup(connections, current_connection)
  IN  /\ pre' = Registry
      /\ UNCHANGED <<current_connection, nextFtp>>
      /\ IF r.result # "Ok"
           THEN /\ last' = Ret("ftp_cwd", directory, "Error", <<>>)
                /\ UNCHANGED connections
         ELSE IF voidcmd_ok(ftp) /\ directory \in Dirs
           THEN /\ connections' = DictSet(connections, current_connection,
                                          [ftp EXCEPT !.cwd = directory])
                /\ last' = [Ret("ftp_cwd", directory, "Ok",
                                <<Cmd(ftp, "CWD", TRUE), Cmd(ftp, "PWD", TRUE)>>)
                              EXCEPT !.text = directory]
         ELSE /\ last' = Ret("ftp_cwd", directory, "Error", <<Cmd(ftp, "CWD", FALSE)>>)
              /\ UNCHANGED connections

ftp_send_noop ==
  LET r == get_current_ftp(Registry)
      ftp == Lookup(connections, current_connection)
  IN  /\ pre' = Registry
      /\ last' = IF r.result # "Ok" THEN Ret("ftp_send_noop", None, "Error", <<>>)
                 ELSE Ret("ftp_send_noop", None,
                          IF voidcmd_ok(ftp) THEN "Ok" ELSE "Error",
                          <<Cmd(ftp, "NOOP", voidcmd_ok(ftp))>>)
      /\ UNCHANGED <<connections, current_connection, nextFtp>>

\* The common shape of the one-command handlers:
\*   try: ftp = _get_current_ftp(ctx); ftp.<command>(...); return "Success..."
\*   except Exception as e: return f"Error ...: {e}"
\* The command succeeds on a live transport when the server accepts it.
session_call(op, arg, cmd, accepted) ==
  LET r == get_current_ftp(Registry)
      ftp == Lookup(connections, current_connection)
      ok == voidcmd_ok(ftp) /\ accepted
  IN  /\ pre' = Registry
      /\ last' = IF r.result # "Ok" THEN Ret(op, arg, "Error", <<>>)
                 ELSE Ret(op, arg, IF ok THEN "Ok" ELSE "Error", <<Cmd(ftp, cmd, ok)>>)
      /\ UNCHANGED <<connections, current_connection, nextFtp>>

ftp_mkdir(directory, accepted) == session_call("ftp_mkdir", directory, "MKD", accepted)

ftp_rmdir(directory, accepted) == session_call("ftp_rmdir", directory, "RMD", accepted)

ftp_delete_file(filename, accepted) ==
  session_call("ftp_delete_file", filename, "DELE", accepted)

ftp_rename(old_name, accepted) == session_call("ftp_rename", old_name, "RNFR", accepted)

ftp_get_file_size(remote_path, accepted) ==
  session_call("ftp_get_file_size", remote_path, "SIZE", accepted)

\* binary_mode content that is not base64 is refused before any command.
ftp_upload_content(remote_path, binary_mode, b64_ok, accepted) ==
  LET r == get_current_ftp(Registry)
  IN  IF r.result = "Ok" /\ binary_mode /\ ~b64_ok
        THEN /\ pre' = Registry
             /\ last' = Ret("ftp_upload_content", remote_path, "NotBase64", <<>>)
             /\ UNCHANGED <<connections, current_connection, nextFtp>>
        ELSE session_call("ftp_upload_content", remote_path, "STOR", accepted)

\* ftp.set_pasv only sets a flag of the FTP object: no command is sent.
ftp_set_passive_mode ==
  LET r == get_current_ftp(Registry)
  IN  /\ pre' = Registry
      /\ last' = Ret("ftp_set_passive_mode", None,
                     IF r.result = "Ok" THEN "Ok" ELSE "Error", <<>>)
      /\ UNCHANGED <<connections, current_connection, nextFtp>>

----
\* Resources

connected_status(ftp, conn_id, current) ==
  IF voidcmd_ok(ftp)
    THEN IF conn_id = current THEN "Connected (Current)" ELSE "Connected"
    ELSE "Disconnected"

\* An empty dict is answered "No active FTP connections." (status stays empty).
get_connections_status ==
  /\ pre' = Registry
  /\ last' = [Ret("get_connections_status", None,
                  IF connections = <<>> THEN "NoConnections" ELSE "Ok",
                  noop_probes(connections))
                EXCEPT !.status =
                  [i \in DOMAIN connections |->
                     [id |-> connections[i].id,
                      status |-> connected_status(connections[i].ftp, connections[i].id,
                                                  current_connection)]]]
  /\ UNCHANGED <<connections, current_connection, nextFtp>>

get_current_directory ==
  LET r == get_current_ftp(Registry)
      ftp == Lookup(connections, current_connection)
  IN  /\ pre' = Registry
      /\ last' = IF r.result # "Ok"
                   THEN Ret("get_current_directory", None, r.result, <<>>)
                 ELSE IF voidcmd_ok(ftp)
                   THEN [Ret("get_current_directory", None, "Ok", <<Cmd(ftp, "PWD", TRUE)>>)
                           EXCEPT !.text = ftp.cwd]
                 ELSE Ret("get_current_directory", None, "Error", <<Cmd(ftp, "PWD", FALSE)>>)
      /\ UNCHANGED <<connections, current_connection, nextFtp>>

----
\* The remote end: a live transport stops answering (server gone, timeout,
\* network loss).  No handler runs; the registry is not touched.
transport_dies(i) ==
  /\ i \in DOMAIN connections
  /\ connections[i].ftp.st = "live"
  /\ connections' = [connections EXCEPT ![i].ftp.st = "dead"]
  /\ pre' = Registry
  /\ last' = Ret("transport_dies", connections[i].id, "Ok", <<>>)
  /\ UNCHANGED <<current_connection, nextFtp>>

----
\* One handler at a time: none is suspended, an FTP object that left the dict
\* is not followed, and no listing is asked for.
Sequential == UNCHANGED <<tasks, detached, remote, outside>>

Next ==
  \/ \E id \in Ids, outcome \in ConnectOutcomes : ftp_connect(id, outcome) /\ Sequential
  \/ \E id \in Ids \cup {None}, close_raises \in BOOLEAN : ftp_disconnect(id, close_raises) /\ Sequential
  \/ ftp_list_connections /\ Sequential
  \/ \E id \in Ids : ftp_switch_connection(id) /\ Sequential
  \/ ftp_pwd /\ Sequential
  \/ \E directory \in DirArgs : ftp_cwd(directory) /\ Sequential
  \/ ftp_send_noop /\ Sequential
  \/ \E path \in Paths, accepted \in BOOLEAN : ftp_mkdir(path, accepted) /\ Sequential
  \/ \E path \in Paths, accepted \in BOOLEAN : ftp_rmdir(path, accepted) /\ Sequential
  \/ \E path \in Paths, accepted \in BOOLEAN : ftp_delete_file(path, accepted) /\ Sequential
  \/ \E path \in Paths, accepted \in BOOLEAN : ftp_rename(path, accepted) /\ Sequential
  \/ \E path \in Paths, accepted \in BOOLEAN : ftp_get_file_size(path, accepted) /\ Sequential
  \/ \E path \in Paths, binary_mode, b64_ok, accepted \in BOOLEAN :
       ftp_upload_content(path, binary_mode, b64_ok, accepted) /\ Sequential
  \/ ftp_set_passive_mode /\ Sequential
  \/ get_connections_status /\ Sequential
  \/ get_current_directory /\ Sequential
  \/ \E i \in 1..MaxFtp : transport_dies(i) /\ Sequential

Spec == Init /\ [][Next]_vars

----
\* ftp_lifespan: the teardown after the yield, and the runs that end with it

\* connections[connection_id] = ftp drops the reference to the FTP object the
\* id had before: nothing is called on it, its socket stays as it is.
overwritten(reg, connection_id, outcome) ==
  IF outcome = "ok" /\ connection_id \in Keys(reg.connections)
    THEN {Lookup(reg.connections, connection_id)}
    ELSE {}

\* The calls of the loop over connections.items():
\*   try: ftp.quit()  except Exception: try: ftp.close()  except Exception: pass
\* closeRaises are the positions whose ftp.close() raises.
RECURSIVE lifespan_cmds(_, _, _)
lifespan_cmds(conns, closeRaises, i) ==
  IF i > Len(conns) THEN <<>>
  ELSE close_transport(conns[i].ftp, i \in closeRaises).cmds
         \o lifespan_cmds(conns, closeRaises, i + 1)

\* The server serves until the lifespan's finally block has run.
Serving == last.op # "ftp_lifespan"

\* finally: the loop, then connections.clear().  current_connection is a field
\* of the context object, which nothing resets.
ftp_lifespan(closeRaises) ==
  /\ Serving
  /\ pre' = Registry
  /\ last' = Ret("ftp_lifespan", None, "Ok", lifespan_cmds(connections, closeRaises, 1))
  /\ connections' = <<>>
  /\ UNCHANGED <<current_connection, nextFtp, tasks, detached, remote, outside>>

ShutdownNext ==
  \/ \E id \in Ids, outcome \in ConnectOutcomes :
       /\ Serving
       /\ ftp_connect(id, outcome)
       /\ detached' = detached \cup overwritten(Registry, id, outcome)
       /\ UNCHANGED <<tasks, remote, outside>>
  \/ \E id \in Ids \cup {None}, close_raises \in BOOLEAN :
       Serving /\ ftp_disconnect(id, close_raises) /\ Sequential
  \/ \E i \in 1..MaxFtp : Serving /\ transport_dies(i) /\ Sequential
  \/ \E closeRaises \in SUBSET (1..MaxFtp) :
       closeRaises \subseteq DOMAIN connections /\ ftp_lifespan(closeRaises)

SpecShutdown == Init /\ [][ShutdownNext]_vars

----
\* str: the methods ftp_list_directory uses, on sequences of character codes

\* str.lower() on one character (ASCII letters).
Lower(c) == IF c >= 65 /\ c <= 90 THEN c + 32 ELSE c

str_lower(s) == [i \in DOMAIN s |-> Lower(s[i])]

\* a < b for two str: the first differing character decides, a proper prefix is smaller.
RECURSIVE str_less(_, _)
str_less(a, b) ==
  IF b = <<>> THEN FALSE
  ELSE IF a = <<>> THEN TRUE
  ELSE IF a[1] # b[1] THEN a[1] < b[1]
  ELSE str_less(Tail(a), Tail(b))

\* line.split(): the maximal runs of non-blank characters.  cur is the run
\* being read, out the runs read so far.
RECURSIVE split_from(_, _, _, _)
split_from(line, i, cur, out) ==
  LET flushed == IF cur = <<>> THEN out ELSE Append(out, cur)
  IN  IF i > Len(line) THEN flushed
      ELSE IF line[i] = 32 THEN split_from(line, i + 1, <<>>, flushed)
      ELSE split_from(line, i + 1, Append(cur, line[i]), out)

split(line) == split_from(line, 1, <<>>, <<>>)

\* ' '.join(parts)
RECURSIVE join(_)
join(parts) ==
  IF parts = <<>> THEN <<>>
  ELSE IF Len(parts) = 1 THEN parts[1]
  ELSE parts[1] \o <<32>> \o join(Tail(parts))

\* int(s) for a str of decimal digits, as <<n>>; <<>> where int raises ValueError.
RECURSIVE int_from(_, _, _)
int_from(s, i, acc) ==
  IF i > Len(s) THEN <<acc>>
  ELSE IF s[i] < 48 \/ s[i] > 57 THEN <<>>
  ELSE int_from(s, i + 1, 10 * acc + (s[i] - 48))

int(s) == IF s = <<>> THEN <<>> ELSE int_from(s, 1, 0)

\* The names '.' and '..'.
DotNames == {<<46>>, <<46, 46>>}

----
\* ftp_list_directory

\* Bound: how many entries the listed directory holds.
MaxEntries == 3

\* What the listed directory may hold: the directories '.', '..' and 'c d',
\* the files 'a' and 'B'.
RawEntries ==
  {[name |-> n, kind |-> "dir"] : n \in DotNames \cup {<<99, 32, 100>>}}
    \cup {[name |-> n, kind |-> "file"] : n \in {<<97>>, <<66>>}}

\* The directory argument: None lists the working directory.
ListDirArgs == {None, "/d", "/nx"}

\* How the server answers a listing that is not detailed: NLST is answered, or fails.
NlstServers == {"nlst", "nlst_fail"}

\* How the server answers a detailed listing:
\*   "mlsd"       MLSD is answered
\*   "mlsd_fail"  MLSD fails with an error that is no error_perm (error_temp, EOF)
\*   "list_long"  MLSD is refused (error_perm), LIST answers nine-column `ls -l` lines
\*   "list_short" MLSD is refused, LIST answers eight-column lines (no group column)
\*   "list_fail"  MLSD is refused, LIST fails
ListServers == {"mlsd", "mlsd_fail", "list_long", "list_short", "list_fail"}

\* The (name, facts) pairs ftp.mlsd() yields.
mlsd_reply(raw) ==
  [i \in DOMAIN raw |->
     [name |-> raw[i].name,
      type |-> raw[i].kind,
      size |-> IF raw[i].kind = "file" THEN <<55>> ELSE <<>>]]

\* One line of the LIST reply: permissions, links, owner, (group,) size, month,
\* day, time, name.
list_line(e, server) ==
  join(<<IF e.kind = "dir" THEN <<100, 114, 119, 120>> ELSE <<45, 114, 119, 45>>,
         <<49>>, <<117>>>>
       \o (IF server = "list_long" THEN <<<<103>>>> ELSE <<>>)
       \o <<<<55>>, <<74, 97, 110>>, <<49>>, <<48, 58, 48>>, e.name>>)

\* The lines ftp.retrlines('LIST', listing.append) collects.
list_reply(raw, server) == [i \in DOMAIN raw |-> list_line(raw[i], server)]

\* FTPFileInfo; <<>> is None for size and permissions.
FTPFileInfo(name, type, size, permissions) ==
  [name |-> name, type |-> type, size |-> size, permissions |-> permissions]

\* The loop over ftp.mlsd().
RECURSIVE mlsd_files(_)
mlsd_files(reply) ==
  IF reply = <<>> THEN <<>>
  ELSE LET f == Head(reply)
       IN  (IF f.name \in DotNames THEN <<>>
            ELSE <<FTPFileInfo(f.name,
                               IF f.type = "dir" THEN "directory" ELSE "file",
                               IF f.size # <<>> THEN int(f.size) ELSE <<>>,
                               <<>>)>>)
           \o mlsd_files(Tail(reply))

\* Faulty variant: the size column is parsed for directories as well.
list_entry_sized(line) ==
  LET parts == split(line)
  IN  IF Len(parts) >= 9
        THEN LET name == join(SubSeq(parts, 9, Len(parts)))
             IN  IF name \in DotNames THEN <<>>
                 ELSE <<FTPFileInfo(name,
                                    IF parts[1][1] = 100 THEN "directory" ELSE "file",
                                    int(parts[5]), parts[1])>>
        ELSE <<>>

\* The entry of one LIST line, as a sequence of none or one.
list_entry(line) ==
  LET parts == split(line)
  IN  IF Len(parts) >= 9
        THEN LET permissions == parts[1]
                 name == join(SubSeq(parts, 9, Len(parts)))
                 file_type == IF permissions[1] = 100 THEN "directory" ELSE "file"
             IN  IF name \in DotNames THEN <<>>
                 ELSE <<FTPFileInfo(name, file_type,
                                    IF file_type = "file" THEN int(parts[5]) ELSE <<>>,
                                    permissions)>>
        ELSE <<>>

\* The loop over the LIST lines.
RECURSIVE list_files(_)
list_files(listing) ==
  IF listing = <<>> THEN <<>>
  ELSE list_entry(Head(listing)) \o list_files(Tail(listing))

\* The loop over ftp.nlst(): an entry is a directory when ftp.cwd(name) is
\* accepted, a file when it is refused (error_perm).
RECURSIVE nlst_files(_)
nlst_files(raw) ==
  IF raw = <<>> THEN <<>>
  ELSE LET e == Head(raw)
       IN  (IF e.name \in DotNames THEN <<>>
            ELSE <<FTPFileInfo(e.name,
                               IF e.kind = "dir" THEN "directory" ELSE "file",
                               <<>>, <<>>)>>)
           \o nlst_files(Tail(raw))

\* Faulty variant: key=lambda x: (x.type == 'file', x.name), without lower().
key_less_cased(x, y) ==
  \/ x.type # "file" /\ y.type = "file"
  \/ (x.type = "file") = (y.type = "file") /\ str_less(x.name, y.name)

\* key(x) < key(y) for key=lambda x: (x.type == 'file', x.name.lower()).
key_less(x, y) ==
  \/ x.type # "file" /\ y.type = "file"
  \/ (x.type = "file") = (y.type = "file")
       /\ str_less(str_lower(x.name), str_lower(y.name))

\* sorted(files, key=...): a stable sort; x goes before the first element with
\* a greater key.
RECURSIVE sorted(_)
sorted(files) ==
  IF files = <<>> THEN <<>>
  ELSE LET front == sorted(SubSeq(files, 1, Len(files) - 1))
           x == files[Len(files)]
           after == {i \in DOMAIN front : key_less(x, front[i])}
           k == IF after = {} THEN Len(front) + 1
                ELSE CHOOSE i \in after : \A j \in after : i <= j
       IN  SubSeq(front, 1, k - 1) \o <<x>> \o SubSeq(front, k, Len(front))

\* Faulty variant: a LIST that fails falls back to NLST, and so does every
\* failure of MLSD, whatever its class.
list_source_chain(ftp, detailed, server) ==
  IF detailed /\ server = "mlsd"
    THEN [mech |-> "MLSD", cmds |-> <<Cmd(ftp, "MLSD", TRUE)>>]
  ELSE IF detailed /\ server \in {"list_long", "list_short"}
    THEN [mech |-> "LIST", cmds |-> <<Cmd(ftp, "MLSD", FALSE), Cmd(ftp, "LIST", TRUE)>>]
  ELSE [mech |-> IF server # "nlst_fail" THEN "NLST" ELSE "none",
        cmds |-> (IF detailed
                    THEN <<Cmd(ftp, "MLSD", FALSE)>>
                           \o (IF server = "list_fail" THEN <<Cmd(ftp, "LIST", FALSE)>>
                               ELSE <<>>)
                    ELSE <<>>)
                 \o <<Cmd(ftp, "NLST", server # "nlst_fail")>>]

\* The listing commands sent and the one that answered ("none": an exception
\* reached the outer except).  detailed: MLSD, and LIST in the handler of
\* ftplib.error_perm only; any exception of that LIST, and any other exception
\* of MLSD, leaves the try.  Not detailed: NLST alone.
list_source(ftp, detailed, server) ==
  IF detailed
    THEN CASE server = "mlsd" ->
                [mech |-> "MLSD", cmds |-> <<Cmd(ftp, "MLSD", TRUE)>>]
           [] server = "mlsd_fail" ->
                [mech |-> "none", cmds |-> <<Cmd(ftp, "MLSD", FALSE)>>]
           [] server \in {"list_long", "list_short"} ->
                [mech |-> "LIST",
                 cmds |-> <<Cmd(ftp, "MLSD", FALSE), Cmd(ftp, "LIST", TRUE)>>]
           [] OTHER ->
                [mech |-> "none",
                 cmds |-> <<Cmd(ftp, "MLSD", FALSE), Cmd(ftp, "LIST", FALSE)>>]
    ELSE [mech |-> IF server = "nlst" THEN "NLST" ELSE "none",
          cmds |-> <<Cmd(ftp, "NLST", server = "nlst")>>]

\* The files list as the loop of the answering mechanism builds it.
list_parse(mech, server, raw) ==
  CASE mech = "MLSD" -> mlsd_files(mlsd_reply(raw))
    [] mech = "LIST" -> list_files(list_reply(raw, server))
    [] OTHER -> nlst_files(raw)

\* The probes of the NLST loop: pwd, cwd(name) and, when that was accepted,
\* cwd(original_pwd).
RECURSIVE nlst_probes(_, _)
nlst_probes(ftp, raw) ==
  IF raw = <<>> THEN <<>>
  ELSE LET e == Head(raw)
       IN  (IF e.name \in DotNames THEN <<>>
            ELSE <<Cmd(ftp, "PWD", TRUE), Cmd(ftp, "CWD", e.kind = "dir")>>
                   \o (IF e.kind = "dir" THEN <<Cmd(ftp, "CWD", TRUE)>> ELSE <<>>))
           \o nlst_probes(ftp, Tail(raw))

\* What one call does on the transport ftp: the result ("Ok", or "Raised" for
\* the exception re-raised at the end of the outer except), the working
\* directory it reports, the sorted files, the commands, and the working
\* directory the session is left in (ftp.cwd(original_dir) runs only at the
\* end of the try).
list_directory(ftp, directory, detailed, server, raw) ==
  LET chdir == ~Falsy(directory)
      here == IF chdir THEN directory ELSE ftp.cwd
      head == <<Cmd(ftp, "PWD", TRUE)>>
                \o (IF chdir THEN <<Cmd(ftp, "CWD", TRUE)>> ELSE <<>>)
                \o <<Cmd(ftp, "PWD", TRUE)>>
      source == list_source(ftp, detailed, server)
  IN  IF ~voidcmd_ok(ftp)
        THEN [result |-> "Raised", current_directory |-> "", files |-> <<>>,
              mech |-> "none", cmds |-> <<Cmd(ftp, "PWD", FALSE)>>, cwd |-> ftp.cwd]
      ELSE IF chdir /\ directory \notin Dirs
        THEN [result |-> "Raised", current_directory |-> "", files |-> <<>>,
              mech |-> "none",
              cmds |-> <<Cmd(ftp, "PWD", TRUE), Cmd(ftp, "CWD", FALSE)>>, cwd |-> ftp.cwd]
      ELSE IF source.mech = "none"
        THEN [result |-> "Raised", current_directory |-> "", files |-> <<>>,
              mech |-> "none", cmds |-> head \o source.cmds, cwd |-> here]
      ELSE [result |-> "Ok", current_directory |-> here,
            files |-> sorted(list_parse(source.mech, server, raw)),
            mech |-> source.mech,
            cmds |-> head \o source.cmds
                       \o (IF source.mech = "NLST" THEN nlst_probes(ftp, raw) ELSE <<>>)
                       \o (IF chdir THEN <<Cmd(ftp, "CWD", TRUE)>> ELSE <<>>),
            cwd |-> ftp.cwd]

\* What the handler answered: Ret with the call's arguments, the server's
\* behaviour and the mechanism that answered.
ListRet(directory, detailed, server, r) ==
  [op |-> "ftp_list_directory", arg |-> directory, result |-> r.result,
   text |-> r.current_directory, status |-> r.files, cmds |-> r.cmds,
   detailed |-> detailed, server |-> server, mech |-> r.mech]

ftp_list_directory(directory, detailed, server) ==
  LET g == get_current_ftp(Registry)
      ftp == Lookup(connections, current_connection)
      r == list_directory(ftp, directory, detailed, server, remote)
  IN  /\ pre' = Registry
      /\ UNCHANGED <<current_connection, nextFtp, tasks, detached, remote, outside>>
      /\ IF g.result # "Ok"
           THEN /\ last' = ListRet(directory, detailed, server,
                                   [result |-> "Raised", current_directory |-> "",
                                    files |-> <<>>, mech |-> "none", cmds |-> <<>>])
                /\ UNCHANGED connections
           ELSE /\ last' = ListRet(directory, detailed, server, r)
                /\ connections' = DictSet(connections, current_connection,
                                          [ftp EXCEPT !.cwd = r.cwd])

\* The remote end: somebody creates an entry in the listed directory.
remote_add(e) ==
  /\ Len(remote) < MaxEntries
  /\ \A i \in DOMAIN remote : remote[i].name # e.name
  /\ remote' = Append(remote, e)
  /\ pre' = Registry
  /\ last' = Ret("remote_add", None, "Ok", <<>>)
  /\ UNCHANGED <<connections, current_connection, nextFtp, tasks, detached, outside>>

\* One session, "a", and the listings asked through it.
ListNext ==
  \/ connections = <<>> /\ ftp_connect("a", "ok") /\ Sequential
  \/ \E e \in RawEntries : remote_add(e)
  \/ \E directory \in ListDirArgs, detailed \in BOOLEAN :
       \E server \in IF detailed THEN ListServers ELSE NlstServers :
         ftp_list_directory(directory, detailed, server)

SpecList == Init /\ [][ListNext]_vars

----
\* Concurrent handlers (SpecConc).  The event loop runs one handler at a time
\* and switches only at an awaited call: each action below is the code of one
\* handler from one await (or its start) to the next (or its return).  A
\* handler whose remaining code touches neither the registry nor a transport
\* is taken as finished.

\* Bound: how many handlers are suspended at the same time.
MaxTasks == 2

\* The connection ids of the concurrent runs.
ConcIds == {"a", "b"}

\* The frame of a suspended handler: its name, where it resumes (pc), its
\* argument, the serial of the FTP object its local variable ftp refers to,
\* and the server behaviour it has met.
Frame(op, pc, arg, ftp, server) ==
  [op |-> op, pc |-> pc, arg |-> arg, ftp |-> ftp, server |-> server]

RemoveAt(seq, t) == SubSeq(seq, 1, t - 1) \o SubSeq(seq, t + 1, Len(seq))

\* The FTP object with that serial: an entry of the dict still has it, or it
\* left the dict and a frame holds it.
Transport(serial) ==
  IF serial \in {connections[i].ftp.serial : i \in DOMAIN connections}
    THEN connections[CHOOSE i \in DOMAIN connections : connections[i].ftp.serial = serial].ftp
    ELSE CHOOSE t \in detached : t.serial = serial

\* Of the objects that left the dict, the ones a frame still refers to.
Held(objects, frames) ==
  {t \in objects : \E i \in DOMAIN frames : frames[i].ftp = t.serial}

\* The object ftp_disconnect closed and removed, as a set.
disconnected(reg, connection_id, close_raises) ==
  LET target == disconnect_target(connection_id, reg.current_connection)
  IN  IF Falsy(target) \/ target \notin Keys(reg.connections) THEN {}
      ELSE LET c == close_transport(Lookup(reg.connections, target), close_raises)
           IN  IF c.raised THEN {} ELSE {c.ftp}

\* ftp_connect up to the await before login: the FTP object is created and
\* connected; it is a local variable until the store.
conc_connect_start(connection_id) ==
  /\ Len(tasks) < MaxTasks
  /\ nextFtp <= MaxFtp
  /\ tasks' = Append(tasks, Frame("ftp_connect", "login", connection_id, nextFtp, ""))
  /\ nextFtp' = nextFtp + 1
  /\ pre' = Registry
  /\ last' = Ret("ftp_connect", connection_id, "Suspended",
                 <<Cmd(NewFtp(nextFtp), "connect", TRUE)>>)
  /\ UNCHANGED <<connections, current_connection, detached, remote, outside>>

\* ftp_connect from login to the await after getwelcome: login, the store and
\* the assignment of current_connection, with no await between them.  A
\* refused login goes to the except block and returns.
conc_connect_login(t, outcome) ==
  /\ t \in DOMAIN tasks
  /\ tasks[t].op = "ftp_connect" /\ tasks[t].pc = "login"
  /\ LET id == tasks[t].arg
         ftp == connect_transport(NewFtp(tasks[t].ftp), outcome)
         reg == connect_registry(Registry, id, ftp, outcome)
         frames == IF outcome = "ok"
                     THEN [tasks EXCEPT ![t].pc = "welcome"]
                     ELSE RemoveAt(tasks, t)
     IN  /\ connections' = reg.connections
         /\ current_connection' = reg.current_connection
         /\ tasks' = frames
         /\ detached' = Held(detached \cup overwritten(Registry, id, outcome), frames)
         /\ last' = Ret("ftp_connect", id, connect_result(outcome),
                        <<Cmd(ftp, "login", outcome = "ok")>>)
  /\ pre' = Registry
  /\ UNCHANGED <<nextFtp, remote, outside>>

\* Faulty variant: current_connection assigned (again) after the last await.
connect_after_welcome_assign(reg, connection_id) ==
  [reg EXCEPT !.current_connection = connection_id]

\* ftp_connect after its last await: it returns its message; the registry is
\* not written.
connect_after_welcome(reg, connection_id) == reg

conc_connect_return(t) ==
  /\ t \in DOMAIN tasks
  /\ tasks[t].op = "ftp_connect" /\ tasks[t].pc = "welcome"
  /\ LET reg == connect_after_welcome(Registry, tasks[t].arg)
     IN  /\ connections' = reg.connections
         /\ current_connection' = reg.current_connection
  /\ tasks' = RemoveAt(tasks, t)
  /\ pre' = Registry
  /\ last' = Ret("ftp_connect", tasks[t].arg, "Connected", <<>>)
  /\ UNCHANGED <<nextFtp, detached, remote, outside>>

\* ftp_disconnect has its only await after the whole update; the object it
\* closed stays reachable for the frames that resolved it before.
conc_disconnect(connection_id, close_raises) ==
  /\ ftp_disconnect(connection_id, close_raises)
  /\ detached' = Held(detached \cup disconnected(Registry, connection_id, close_raises),
                      tasks)
  /\ UNCHANGED <<tasks, remote, outside>>

\* connect, disconnect and switch, interleaved at their awaits.
MutatorsNext ==
  \/ \E id \in ConcIds : conc_connect_start(id)
  \/ \E t \in 1..MaxTasks, outcome \in {"ok", "login_perm"} : conc_connect_login(t, outcome)
  \/ \E t \in 1..MaxTasks : conc_connect_return(t)
  \/ \E id \in ConcIds \cup {None}, close_raises \in BOOLEAN :
       conc_disconnect(id, close_raises)
  \/ \E id \in ConcIds : ftp_switch_connection(id) /\ Sequential

SpecMutators == Init /\ [][MutatorsNext]_vars

\* ftp_upload_file up to the await before the transfer: the session is
\* resolved and the local file is looked at; no command is sent yet.
upload_file_start(remote_path, local_ok) ==
  LET g == get_current_ftp(Registry)
  IN  /\ Len(tasks) < MaxTasks
      /\ pre' = Registry
      /\ UNCHANGED <<connections, current_connection, nextFtp, detached, remote, outside>>
      /\ IF g.result # "Ok" \/ ~local_ok
           THEN /\ last' = Ret("ftp_upload_file", remote_path, "Error", <<>>)
                /\ UNCHANGED tasks
           ELSE /\ last' = Ret("ftp_upload_file", remote_path, "Suspended", <<>>)
                /\ tasks' = Append(tasks, Frame("ftp_upload_file", "stor", remote_path,
                                                g.serial, ""))

\* The transfer command of a resumed handler, sent on the FTP object the
\* handler resolved before it was suspended; text is that object's state.
transfer(t, pc, cmd, accepted) ==
  /\ t \in DOMAIN tasks
  /\ tasks[t].pc = pc
  /\ LET ftp == Transport(tasks[t].ftp)
         ok == voidcmd_ok(ftp) /\ accepted
     IN  last' = [Ret(tasks[t].op, tasks[t].arg, IF ok THEN "Ok" ELSE "Error",
                      <<Cmd(ftp, cmd, ok)>>)
                    EXCEPT !.text = ftp.st]
  /\ tasks' = RemoveAt(tasks, t)
  /\ detached' = Held(detached, RemoveAt(tasks, t))
  /\ pre' = Registry
  /\ UNCHANGED <<connections, current_connection, nextFtp, remote, outside>>

\* ftp_upload_file after the await: storbinary / storlines.
upload_file_transfer(t, accepted) == transfer(t, "stor", "STOR", accepted)

\* ftp_download_content up to the await before the transfer: the session is
\* resolved and SIZE is asked (a refusal of SIZE is passed over).
download_content_start(remote_path) ==
  LET g == get_current_ftp(Registry)
      ftp == Lookup(connections, current_connection)
  IN  /\ Len(tasks) < MaxTasks
      /\ pre' = Registry
      /\ UNCHANGED <<connections, current_connection, nextFtp, detached, remote, outside>>
      /\ IF g.result # "Ok"
           THEN /\ last' = Ret("ftp_download_content", remote_path, "Error", <<>>)
                /\ UNCHANGED tasks
         ELSE IF ~voidcmd_ok(ftp)
           THEN /\ last' = Ret("ftp_download_content", remote_path, "Error",
                               <<Cmd(ftp, "SIZE", FALSE)>>)
                /\ UNCHANGED tasks
         ELSE /\ last' = Ret("ftp_download_content", remote_path, "Suspended",
                             <<Cmd(ftp, "SIZE", TRUE)>>)
              /\ tasks' = Append(tasks, Frame("ftp_download_content", "retr", remote_path,
                                              g.serial, ""))

\* ftp_download_content after the await: retrbinary.
download_content_transfer(t, accepted) == transfer(t, "retr", "RETR", accepted)

\* ftp_list_directory(None, detailed=True) up to the await of ctx.warning:
\* pwd, pwd and MLSD.  Only a refused MLSD suspends the handler, between MLSD
\* and LIST; otherwise this is the whole call.
list_directory_start(server) ==
  LET g == get_current_ftp(Registry)
      ftp == Lookup(connections, current_connection)
      r == list_directory(ftp, None, TRUE, server, remote)
  IN  /\ Len(tasks) < MaxTasks
      /\ pre' = Registry
      /\ UNCHANGED <<connections, current_connection, nextFtp, detached, remote, outside>>
      /\ IF g.result # "Ok"
           THEN /\ last' = Ret("ftp_list_directory", None, "Raised", <<>>)
                /\ UNCHANGED tasks
         ELSE IF voidcmd_ok(ftp) /\ server \in {"list_long", "list_short", "list_fail"}
           THEN /\ last' = Ret("ftp_list_directory", None, "Suspended",
                               <<Cmd(ftp, "PWD", TRUE), Cmd(ftp, "PWD", TRUE),
                                 Cmd(ftp, "MLSD", FALSE)>>)
                /\ tasks' = Append(tasks, Frame("ftp_list_directory", "list", None,
                                                g.serial, server))
         ELSE /\ last' = ListRet(None, TRUE, server, r)
              /\ UNCHANGED tasks

\* ftp_list_directory after the await of ctx.warning: LIST on the same FTP
\* object, the parse and the return.
list_directory_resume(t) ==
  /\ t \in DOMAIN tasks
  /\ tasks[t].pc = "list"
  /\ LET ftp == Transport(tasks[t].ftp)
         ok == voidcmd_ok(ftp) /\ tasks[t].server # "list_fail"
     IN  last' = [Ret("ftp_list_directory", None, IF ok THEN "Ok" ELSE "Raised",
                      <<Cmd(ftp, "LIST", ok)>>)
                    EXCEPT !.text = ftp.cwd,
                           !.status = IF ok THEN sorted(list_parse("LIST", tasks[t].server,
                                                                   remote))
                                      ELSE <<>>]
  /\ tasks' = RemoveAt(tasks, t)
  /\ detached' = Held(detached, RemoveAt(tasks, t))
  /\ pre' = Registry
  /\ UNCHANGED <<connections, current_connection, nextFtp, remote, outside>>

\* The handlers that work on the one session "a", interleaved at their awaits
\* with its connect and disconnect; ftp_cwd sends CWD and PWD before its only
\* await.
ConcNext ==
  \/ conc_connect_start("a")
  \/ \E t \in 1..MaxTasks : conc_connect_login(t, "ok")
  \/ \E t \in 1..MaxTasks : conc_connect_return(t)
  \/ \E close_raises \in BOOLEAN : conc_disconnect("a", close_raises)
  \/ \E path \in Paths, local_ok \in BOOLEAN : upload_file_start(path, local_ok)
  \/ \E t \in 1..MaxTasks, accepted \in BOOLEAN : upload_file_transfer(t, accepted)
  \/ \E path \in Paths : download_content_start(path)
  \/ \E t \in 1..MaxTasks, accepted \in BOOLEAN : download_content_transfer(t, accepted)
  \/ \E server \in {"mlsd", "list_long", "list_fail"} : list_directory_start(server)
  \/ \E t \in 1..MaxTasks : list_directory_resume(t)
  \/ \E directory \in DirArgs : ftp_cwd(directory) /\ Sequential

SpecConc == Init /\ [][ConcNext]_vars

----
\* ftp_download_content on one session (SpecContent)

\* 1024 * 1024, the bytes of one MB.
Mb == 1024 * 1024

\* max_size_mb.
MaxSizes == {0, 1, 2}

\* How many bytes the remote file holds.
FileLengths == {0, 1, Mb, Mb + 1, 2 * Mb, 2 * Mb + 1}

\* How the server answers SIZE:
\*   "ok"       213 and the length of the file
\*   "none"     another positive reply: ftp.size returns None
\*   "refused"  error_perm (SIZE not supported)
\*   "lost"     an exception that is no error_perm (error_temp, EOF)
SizeReplies == {"ok", "none", "refused", "lost"}

\* Faulty variant: a file of exactly the maximum size is refused as well.
too_large_or_equal(size, max_size_mb) ==
  size # <<>> /\ size[1] # 0 /\ size[1] >= max_size_mb * 1024 * 1024

\* `size and size > max_size_mb * 1024 * 1024`; size is <<>> for None.
too_large(size, max_size_mb) ==
  size # <<>> /\ size[1] # 0 /\ size[1] > max_size_mb * 1024 * 1024

\* What the handler answered: Ret, the mode and the maximum it was given, the
\* size SIZE reported (<<>>: none) and the "size" of the result (<<>>: no such
\* key).
ContentRet(remote_path, binary_mode, max_size_mb, reported, result, size, cmds) ==
  [op |-> "ftp_download_content", arg |-> remote_path, result |-> result,
   text |-> "", status |-> <<>>, cmds |-> cmds, binary |-> binary_mode,
   max_size_mb |-> max_size_mb, reported |-> reported, size |-> size]

\* The server and the remote file: length is the length of the file,
\* size_reply the answer to SIZE, retr_ok whether the server sends the file,
\* decodable whether its bytes decode in the given encoding (binary_mode needs
\* no decoding).
ContentServers ==
  [length : FileLengths, size_reply : SizeReplies, retr_ok : BOOLEAN,
   decodable : BOOLEAN]

\* One call on the transport ftp.
download_content(ftp, remote_path, binary_mode, max_size_mb, server) ==
  LET size == IF server.size_reply = "ok" THEN <<server.length>> ELSE <<>>
      asked == Cmd(ftp, "SIZE", server.size_reply \in {"ok", "none"})
      ret(result, n, cmds) ==
        ContentRet(remote_path, binary_mode, max_size_mb, size, result, n, cmds)
  IN  IF ~voidcmd_ok(ftp)
        THEN ContentRet(remote_path, binary_mode, max_size_mb, <<>>, "Error", <<>>,
                        <<Cmd(ftp, "SIZE", FALSE)>>)
      ELSE IF server.size_reply = "lost" THEN ret("Error", <<>>, <<asked>>)
      ELSE IF too_large(size, max_size_mb) THEN ret("TooLarge", size, <<asked>>)
      ELSE IF ~server.retr_ok
        THEN ret("Error", <<>>, <<asked, Cmd(ftp, "RETR", FALSE)>>)
      ELSE IF ~binary_mode /\ ~server.decodable
        THEN ret("Error", <<>>, <<asked, Cmd(ftp, "RETR", TRUE)>>)
      ELSE ret("Content", <<server.length>>, <<asked, Cmd(ftp, "RETR", TRUE)>>)

ftp_download_content(remote_path, binary_mode, max_size_mb, server) ==
  LET g == get_current_ftp(Registry)
      ftp == Lookup(connections, current_connection)
  IN  /\ pre' = Registry
      /\ last' = IF g.result # "Ok"
                   THEN ContentRet(remote_path, binary_mode, max_size_mb, <<>>, "Error",
                                   <<>>, <<>>)
                 ELSE download_content(ftp, remote_path, binary_mode, max_size_mb,
                                       server)
      /\ UNCHANGED <<connections, current_connection, nextFtp, tasks, detached, remote, outside>>

\* One session, "a", which the server may drop, and the downloads asked
\* through it.
ContentNext ==
  \/ connections = <<>> /\ ftp_connect("a", "ok") /\ Sequential
  \/ \E i \in DOMAIN connections : transport_dies(i) /\ Sequential
  \/ \E remote_path \in Paths, binary_mode \in BOOLEAN, max_size_mb \in MaxSizes,
        server \in ContentServers :
       ftp_download_content(remote_path, binary_mode, max_size_mb, server)

SpecContent == Init /\ [][ContentNext]_vars

----
\* ftp_upload_file and ftp_download_file on one session (SpecTransfer)

\* What a file may hold: nothing, or two lines separated by LF.
Contents == {<<>>, <<97, 10, 98>>}

\* remote_path and local_path may be left out.
OptionalPaths == LocalPaths \cup {None}

\* The local file system changes under the server: somebody writes a file.
local_write(path, data) ==
  /\ local' = [local EXCEPT ![path] = <<data>>]
  /\ pre' = Registry
  /\ last' = Ret("local_write", path, "Ok", <<>>)
  /\ UNCHANGED <<connections, current_connection, nextFtp, tasks, detached, remote,
                 site, tavily>>

\* What the server has stored when the with block of the upload is left, and
\* whether it was left by an exception.  storbinary sends the bytes of the
\* file opened 'rb' as they are.  storlines is given the file opened 'r': its
\* readline returns str, and the first line raises TypeError at
\* `buf[-1] in B_CRLF` after STOR has opened the remote file; only an empty
\* file gets through.
stor_sent(data, binary_mode) ==
  IF binary_mode \/ data = <<>>
    THEN [raised |-> FALSE, data |-> data]
    ELSE [raised |-> TRUE, data |-> <<>>]

\* Faulty variant: the download writes line by line whatever the mode.
retr_written_lines(data, binary_mode) ==
  SelectSeq(data, LAMBDA b : b \notin {10, 13})

\* What the download writes to the local file: retrbinary hands file.write the
\* bytes as they come; retrlines hands it each line with its line end
\* stripped, and file.write adds none.
retr_written(data, binary_mode) ==
  IF binary_mode THEN data ELSE SelectSeq(data, LAMBDA b : b \notin {10, 13})

\* No upload came just before.
NoUpload ==
  [op |-> "other", arg |-> None, result |-> "", remote |-> None, binary |-> FALSE,
   size |-> <<>>]

\* What a transfer handler answered: Ret, the remote name and the mode it
\* used, the byte count of its message (<<>>: none) and, for a download, the
\* upload that the previous call was.
FileRet(op, local_path, remote_path, binary_mode, result, size, cmds, before) ==
  [op |-> op, arg |-> local_path, result |-> result, text |-> "", status |-> <<>>,
   cmds |-> cmds, remote |-> remote_path, binary |-> binary_mode, size |-> size,
   before |-> before]

\* os.path.basename of a path without directory part is the path.
ftp_upload_file(local_path, remote_path, binary_mode, accepted) ==
  LET g == get_current_ftp(Registry)
      ftp == Lookup(connections, current_connection)
      name == IF remote_path = None THEN local_path ELSE remote_path
      file == local[local_path]
      sent == stor_sent(file[1], binary_mode)
      ret(result, size, cmds) ==
        FileRet("ftp_upload_file", local_path, name, binary_mode, result, size, cmds,
                NoUpload)
  IN  /\ pre' = Registry
      /\ UNCHANGED <<connections, current_connection, nextFtp, tasks, detached, remote,
                     local, tavily>>
      /\ IF g.result # "Ok"
           THEN last' = ret("Error", <<>>, <<>>) /\ UNCHANGED site
         ELSE IF file = <<>>
           THEN last' = ret("NotFound", <<>>, <<>>) /\ UNCHANGED site
         ELSE IF ~(voidcmd_ok(ftp) /\ accepted)
           THEN last' = ret("Error", <<>>, <<Cmd(ftp, "STOR", FALSE)>>) /\ UNCHANGED site
         ELSE /\ site' = [site EXCEPT !.files[name] = <<sent.data>>]
              /\ last' = IF sent.raised
                           THEN ret("Error", <<>>, <<Cmd(ftp, "STOR", TRUE)>>)
                         ELSE ret("Ok", <<Len(file[1])>>, <<Cmd(ftp, "STOR", TRUE)>>)

\* open(local_path, 'wb' or 'w') creates or empties the local file before RETR
\* is sent; the server refuses RETR for a name it does not hold.
ftp_download_file(remote_path, local_path, binary_mode, accepted) ==
  LET g == get_current_ftp(Registry)
      ftp == Lookup(connections, current_connection)
      path == IF local_path = None THEN remote_path ELSE local_path
      file == site.files[remote_path]
      written == retr_written(file[1], binary_mode)
      before == IF last.op = "ftp_upload_file"
                  THEN [op |-> last.op, arg |-> last.arg, result |-> last.result,
                        remote |-> last.remote, binary |-> last.binary,
                        size |-> last.size]
                  ELSE NoUpload
      ret(result, size, cmds) ==
        FileRet("ftp_download_file", path, remote_path, binary_mode, result, size, cmds,
                before)
  IN  /\ pre' = Registry
      /\ UNCHANGED <<connections, current_connection, nextFtp, tasks, detached, remote,
                     site, tavily>>
      /\ IF g.result # "Ok"
           THEN last' = ret("Error", <<>>, <<>>) /\ UNCHANGED local
         ELSE IF ~(voidcmd_ok(ftp) /\ accepted /\ file # <<>>)
           THEN /\ local' = [local EXCEPT ![path] = << <<>> >>]
                /\ last' = ret("Error", <<>>, <<Cmd(ftp, "RETR", FALSE)>>)
         ELSE /\ local' = [local EXCEPT ![path] = <<written>>]
              /\ last' = ret("Ok", <<Len(written)>>, <<Cmd(ftp, "RETR", TRUE)>>)

\* One session, "a", the local files and the transfers asked through it.
TransferNext ==
  \/ connections = <<>> /\ ftp_connect("a", "ok") /\ Sequential
  \/ \E path \in LocalPaths, data \in Contents : local_write(path, data)
  \/ \E local_path \in LocalPaths, remote_path \in OptionalPaths,
        binary_mode \in BOOLEAN, accepted \in BOOLEAN :
       ftp_upload_file(local_path, remote_path, binary_mode, accepted)
  \/ \E remote_path \in RemoteNames, local_path \in OptionalPaths,
        binary_mode \in BOOLEAN, accepted \in BOOLEAN :
       ftp_download_file(remote_path, local_path, binary_mode, accepted)

SpecTransfer == Init /\ [][TransferNext]_vars

----
\* ftp_create_directory_tree on one session (SpecTree)

\* s.strip('/'): the leading and the trailing slashes go.
RECURSIVE str_strip(_)
str_strip(s) ==
  IF s = <<>> THEN s
  ELSE IF s[1] = 47 THEN str_strip(Tail(s))
  ELSE IF s[Len(s)] = 47 THEN str_strip(SubSeq(s, 1, Len(s) - 1))
  ELSE s

\* s.split('/'): the pieces between the slashes, empty ones included; cur is
\* the piece being read.
RECURSIVE str_split_from(_, _, _, _)
str_split_from(s, i, cur, out) ==
  IF i > Len(s) THEN Append(out, cur)
  ELSE IF s[i] = 47 THEN str_split_from(s, i + 1, <<>>, Append(out, cur))
  ELSE str_split_from(s, i + 1, Append(cur, s[i]), out)

str_split(s) == str_split_from(s, 1, <<>>, <<>>)

\* directory_path: '/a/b/c', 'a//b', 'a', 'a/b/' and '/'.
TreePaths ==
  {<<47, 97, 47, 98, 47, 99>>, <<97, 47, 47, 98>>, <<97>>, <<97, 47, 98, 47>>, <<47>>}

\* The names MKD may be given.
TreeNames == {<<97>>, <<97, 47, 98>>, <<97, 47, 98, 47, 99>>}

\* The server: the words of its refusal of MKD for a directory that exists
\* ("exists": the text holds 'exists', as in '550 a: File exists'; "generic":
\* it does not, as in '550 Create directory operation failed.'), and the name
\* (<<>>: none) whose MKD fails for another reason, with error_perm ("refused") or
\* with another exception ("lost").
TreeServers ==
  [wording : {"exists", "generic"},
   fault : {<<>>} \cup {<<name>> : name \in TreeNames},
   kind : {"refused", "lost"}]

\* The outcome of ftp.mkd(path): "created", or an error_perm whose text holds
\* 'exists' ("exists") or does not ("refused"), or another exception ("lost").
mkd_reply(path, dirs, server) ==
  IF server.fault = <<path>> THEN server.kind
  ELSE IF path \in dirs
    THEN IF server.wording = "exists" THEN "exists" ELSE "refused"
  ELSE "created"

\* Faulty variant: every error_perm is taken for 'already exists'.
skipped_any(reply) == reply \in {"exists", "refused"}

\* except ftplib.error_perm as e: if "exists" in str(e).lower(): continue
skipped(reply) == reply = "exists"

\* Faulty variant: a skipped directory is listed as created too.
created_dirs_all(created, path, reply) == Append(created, path)

\* created_dirs.append(current_path), reached when ftp.mkd returned.
created_dirs(created, path, reply) ==
  IF reply = "created" THEN Append(created, path) ELSE created

\* The loop over parts: the result ("Created": created_dirs is not empty,
\* "Exists": it is, "Error": an exception reached the outer except), the
\* created_dirs of the message, the directories of the server afterwards and
\* the MKD attempts with their outcomes.
RECURSIVE create_tree(_, _, _, _, _, _)
create_tree(parts, current_path, dirs, created, mkd, server) ==
  IF parts = <<>>
    THEN [result |-> IF created # <<>> THEN "Created" ELSE "Exists",
          created |-> created, dirs |-> dirs, mkd |-> mkd]
  ELSE IF Head(parts) = <<>>
    THEN create_tree(Tail(parts), current_path, dirs, created, mkd, server)
  ELSE LET path == IF current_path # <<>>
                     THEN current_path \o <<47>> \o Head(parts)
                     ELSE Head(parts)
           reply == mkd_reply(path, dirs, server)
           tried == Append(mkd, [path |-> path, reply |-> reply])
       IN  IF reply = "created" \/ skipped(reply)
             THEN create_tree(Tail(parts), path,
                              IF reply = "created" THEN dirs \cup {path} ELSE dirs,
                              created_dirs(created, path, reply), tried, server)
             ELSE [result |-> "Error", created |-> <<>>, dirs |-> dirs, mkd |-> tried]

\* What the handler answered: Ret with the created_dirs of the message as
\* status, and the MKD attempts.
TreeRet(directory_path, result, created, cmds, mkd) ==
  [op |-> "ftp_create_directory_tree", arg |-> directory_path, result |-> result,
   text |-> "", status |-> created, cmds |-> cmds, mkd |-> mkd]

ftp_create_directory_tree(directory_path, server) ==
  LET g == get_current_ftp(Registry)
      ftp == Lookup(connections, current_connection)
      r == create_tree(str_split(str_strip(directory_path)), <<>>, site.dirs, <<>>,
                       <<>>, server)
  IN  /\ pre' = Registry
      /\ UNCHANGED <<connections, current_connection, nextFtp, tasks, detached, remote,
                     local, tavily>>
      /\ IF g.result # "Ok"
           THEN /\ last' = TreeRet(directory_path, "Error", <<>>, <<>>, <<>>)
                /\ UNCHANGED site
         ELSE IF ~voidcmd_ok(ftp)
           THEN /\ last' = TreeRet(directory_path,
                                   IF r.mkd = <<>> THEN "Exists" ELSE "Error", <<>>,
                                   IF r.mkd = <<>> THEN <<>>
                                   ELSE <<Cmd(ftp, "MKD", FALSE)>>,
                                   IF r.mkd = <<>> THEN <<>>
                                   ELSE <<[path |-> r.mkd[1].path, reply |-> "lost"]>>)
                /\ UNCHANGED site
         ELSE /\ last' = TreeRet(directory_path, r.result, r.created,
                                 [i \in DOMAIN r.mkd |->
                                    Cmd(ftp, "MKD", r.mkd[i].reply = "created")],
                                 r.mkd)
              /\ site' = [site EXCEPT !.dirs = r.dirs]

\* One session, "a", which the server may drop, and the trees asked through it.
TreeNext ==
  \/ connections = <<>> /\ ftp_connect("a", "ok") /\ Sequential
  \/ \E i \in DOMAIN connections : transport_dies(i) /\ Sequential
  \/ \E directory_path \in TreePaths, server \in TreeServers :
       ftp_create_directory_tree(directory_path, server)

SpecTree == Init /\ [][TreeNext]_vars

----
\* The parse of one LIST line (lines 479-528), on lines of every length

\* Bound: how many whitespace-separated words the name of a listed entry has.
MaxNameTokens == 2

\* The columns before the name: permissions (of a directory, a file, a link),
\* links, owner, group, size (a number or not), month, day, time.
ListColumns ==
  {<<perms, <<49>>, <<117>>, <<103>>, size, <<74, 97, 110>>, <<49>>, <<48, 58, 48>>>> :
     perms \in {<<100, 114>>, <<45, 114>>, <<108, 114>>},
     size \in {<<55>>, <<49, 50>>, <<120>>}}

\* The words of a name: 'a', '.', '..' and '->'.
NameTokens == {<<97>>, <<46>>, <<46, 46>>, <<45, 62>>}

Names == UNION {[1..n -> NameTokens] : n \in 1..MaxNameTokens}

\* The words of a line: the columns and a name, or the first k columns only.
ListLineTokens ==
  {c \o n : c \in ListColumns, n \in Names}
    \cup {SubSeq(c, 1, k) : c \in ListColumns, k \in 0..8}

\* The words separated by sep blanks.
RECURSIVE spaced(_, _)
spaced(parts, sep) ==
  IF parts = <<>> THEN <<>>
  ELSE IF Len(parts) = 1 THEN parts[1]
  ELSE parts[1] \o [i \in 1..sep |-> 32] \o spaced(Tail(parts), sep)

\* The lines a LIST reply may hold.
ListLines == {spaced(parts, sep) : parts \in ListLineTokens, sep \in 1..2}

\* One pass of the loop at lines 479-528 on one line.
parse_list_line(line) ==
  /\ pre' = Registry
  /\ last' = [Ret("list_entry", line, "Ok", <<>>) EXCEPT !.status = list_entry(line)]
  /\ UNCHANGED <<connections, current_connection, nextFtp, tasks, detached, remote, outside>>

ParseNext == \E line \in ListLines : parse_list_line(line)

SpecParse == Init /\ [][ParseNext]_vars

----
\* ftp_explore_directory on one session (SpecExplore)

\* The directory argument: a directory that exists, one that does not, '.'.
ExploreArgs == DirArgs \cup {"."}

\* The commands of one call, in order: pwd, cwd(directory), pwd, cwd(".."),
\* pwd, cwd(new_dir).
ExploreCmds == <<"PWD", "CWD", "PWD", "CWD", "PWD", "CWD">>

\* The command the server fails (0: none) and how: with error_perm ("perm")
\* or with another exception, the connection being lost ("lost").
ExploreFaults == [at : 0..Len(ExploreCmds), kind : {"perm", "lost"}]

\* The directory cwd(directory) leads to from here.
explore_target(here, directory) == IF directory = "." THEN here ELSE directory

\* The directory cwd("..") leads to: the root, from the root and from "/d".
parent_dir(dir) == "/"

\* Where the session is when the call ends, by the command that failed
\* (0: none): before cwd(directory) took effect it is where it was, after a
\* failed cwd("..") or after cwd(new_dir) it is in new_dir, and between an
\* accepted cwd("..") and cwd(new_dir) it is in the parent.
explore_cwd(original, new_dir, failed) ==
  IF failed \in {1, 2} THEN original
  ELSE IF failed \in {5, 6} THEN parent_dir(new_dir)
  ELSE new_dir

\* One call on the transport ftp: the result, the "directory" and the
\* "original_directory" of the answer, the branch that answered ("ok", the
\* except ftplib.error_perm branch "rejected", the outer except "error"), the
\* commands and the transport afterwards.
explore_directory(ftp, directory, fault) ==
  LET new_dir == explore_target(ftp.cwd, directory)
      failed == IF ~voidcmd_ok(ftp) THEN 1
                ELSE IF fault.at \in {1, 2} THEN fault.at
                ELSE IF new_dir \notin Dirs THEN 2
                ELSE fault.at
      kind == IF ~voidcmd_ok(ftp) THEN "lost"
              ELSE IF fault.at = failed THEN fault.kind
              ELSE "perm"
      sent == IF failed = 0 THEN Len(ExploreCmds) ELSE failed
      lost == failed # 0 /\ kind = "lost"
      branch == IF failed \in {2, 3} /\ kind = "perm" THEN "rejected"
                ELSE IF failed \in {1, 2, 3} THEN "error"
                ELSE "ok"
  IN  [result |-> IF branch = "ok" THEN "Success" ELSE "Failure",
       directory |-> IF branch = "ok" THEN new_dir ELSE directory,
       original |-> IF branch = "error" THEN "unknown" ELSE ftp.cwd,
       branch |-> branch,
       cmds |-> [i \in 1..sent |-> Cmd(ftp, ExploreCmds[i], i # failed)],
       ftp |-> [ftp EXCEPT !.cwd = explore_cwd(ftp.cwd, new_dir, failed),
                           !.st = IF lost THEN "dead" ELSE ftp.st]]

\* What the handler answered: Ret with "directory" as text, and
\* "original_directory" and the branch that answered.
ExploreRet(directory, r) ==
  [op |-> "ftp_explore_directory", arg |-> directory, result |-> r.result,
   text |-> r.directory, status |-> <<>>, cmds |-> r.cmds,
   original |-> r.original, branch |-> r.branch]

ftp_explore_directory(directory, fault) ==
  LET g == get_current_ftp(Registry)
      ftp == Lookup(connections, current_connection)
      r == explore_directory(ftp, directory, fault)
  IN  /\ pre' = Registry
      /\ UNCHANGED <<current_connection, nextFtp, tasks, detached, remote, outside>>
      /\ IF g.result # "Ok"
           THEN /\ last' = ExploreRet(directory,
                                      [result |-> "Failure", directory |-> directory,
                                       original |-> "unknown", branch |-> "error",
                                       cmds |-> <<>>])
                /\ UNCHANGED connections
           ELSE /\ last' = ExploreRet(directory, r)
                /\ connections' = DictSet(connections, current_connection, r.ftp)

\* One session, "a", which the server may drop, its changes of directory and
\* the explorations asked through it.
ExploreNext ==
  \/ connections = <<>> /\ ftp_connect("a", "ok") /\ Sequential
  \/ \E i \in DOMAIN connections : transport_dies(i) /\ Sequential
  \/ \E directory \in DirArgs : ftp_cwd(directory) /\ Sequential
  \/ \E directory \in ExploreArgs, fault \in ExploreFaults :
       ftp_explore_directory(directory, fault)

SpecExplore == Init /\ [][ExploreNext]_vars

----
\* The search server, src/tavily-internet/tavily_server.py (SpecTavily)

\* os.getenv('TAVILY_API_KEY'): not set, set to the empty string, set to a key.
ApiKeys == {None, "", "tvly-key"}

\* tavily_lifespan up to its yield: the client exists only for a truthy key.
tavily_lifespan(api_key) ==
  /\ ~tavily.serving
  /\ tavily' = [serving |-> TRUE, api_key |-> api_key,
                client |-> IF Falsy(api_key) THEN None ELSE "TavilyClient"]
  /\ pre' = Registry
  /\ last' = Ret("tavily_lifespan", api_key, "Ok", <<>>)
  /\ UNCHANGED <<connections, current_connection, nextFtp, tasks, detached, remote,
                 local, site>>

\* Faulty variant: the client of the context is handed out unchecked.
get_tavily_client_unchecked(ctx) == [raised |-> "", client |-> ctx.client]

\* _get_tavily_client: the client, or the ValueError raised ("" for none).
get_tavily_client(ctx) ==
  IF Falsy(ctx.api_key) THEN [raised |-> "KeyNotFound", client |-> None]
  ELSE IF ctx.client = None THEN [raised |-> "NotInitialized", client |-> None]
  ELSE [raised |-> "", client |-> ctx.client]

\* How the search service answers one request: with data, or with an
\* exception of the client.
ClientReplies == {"ok", "raises"}

\* client.<method>(...): a method of None raises AttributeError before any
\* request; calls keeps the requests the client made.
client_call(client, method, reply) ==
  IF client = None THEN [raised |-> "AttributeError", calls |-> <<>>]
  ELSE [raised |-> IF reply = "raises" THEN "ClientError" ELSE "",
        calls |-> <<method>>]

\* What a tool answered: its return value ("Ok") or the ValueError it raised
\* at the end of its except block ("Raised", text the error it wraps), and
\* the requests made through the client.
TavilyRet(op, arg, raised, calls) ==
  [op |-> op, arg |-> arg, result |-> IF raised = "" THEN "Ok" ELSE "Raised",
   text |-> raised, status |-> <<>>, cmds |-> calls]

\* A tool leaves everything but the observers as it was.
tavily_tool(ret) ==
  /\ tavily.serving
  /\ pre' = Registry
  /\ last' = ret
  /\ UNCHANGED <<connections, current_connection, nextFtp, tasks, detached, remote, outside>>

\* search_depth and max_results are replaced by their defaults when invalid.
tavily_search(query, search_depth, max_results, reply) ==
  LET g == get_tavily_client(tavily)
      depth == IF search_depth \in {"basic", "advanced"} THEN search_depth ELSE "basic"
      n == IF max_results < 1 \/ max_results > 20 THEN 5 ELSE max_results
      c == client_call(g.client,
                       [method |-> "search", search_depth |-> depth, max_results |-> n],
                       reply)
      arg == [query |-> query, search_depth |-> search_depth, max_results |-> max_results]
  IN  tavily_tool(IF g.raised # ""
                    THEN TavilyRet("tavily_search", arg, g.raised, <<>>)
                    ELSE TavilyRet("tavily_search", arg, c.raised, c.calls))

\* One client.extract per url, of the first 10 urls; an exception of one
\* request is caught and makes the item of that url.
RECURSIVE extract_calls(_, _, _)
extract_calls(client, n, reply) ==
  IF n = 0 THEN <<>>
  ELSE client_call(client, [method |-> "extract"], reply).calls
         \o extract_calls(client, n - 1, reply)

\* urls is given by its length.
tavily_extract_content(urls, reply) ==
  LET g == get_tavily_client(tavily)
      n == IF urls > 10 THEN 10 ELSE urls
  IN  tavily_tool(IF g.raised # ""
                    THEN TavilyRet("tavily_extract_content", urls, g.raised, <<>>)
                  ELSE IF urls = 0
                    THEN TavilyRet("tavily_extract_content", urls, "NoUrls", <<>>)
                  ELSE TavilyRet("tavily_extract_content", urls, "",
                                 extract_calls(g.client, n, reply)))

tavily_get_search_context(query, reply) ==
  LET g == get_tavily_client(tavily)
      c == client_call(g.client, [method |-> "get_search_context"], reply)
  IN  tavily_tool(IF g.raised # ""
                    THEN TavilyRet("tavily_get_search_context", query, g.raised, <<>>)
                    ELSE TavilyRet("tavily_get_search_context", query, c.raised, c.calls))

\* client.qna_search, then client.search for the sources.
tavily_qna_search(query, reply, reply2) ==
  LET g == get_tavily_client(tavily)
      c == client_call(g.client, [method |-> "qna_search"], reply)
      c2 == client_call(g.client, [method |-> "search"], reply2)
  IN  tavily_tool(IF g.raised # ""
                    THEN TavilyRet("tavily_qna_search", query, g.raised, <<>>)
                  ELSE IF c.raised # ""
                    THEN TavilyRet("tavily_qna_search", query, c.raised, c.calls)
                  ELSE TavilyRet("tavily_qna_search", query, c2.raised,
                                 c.calls \o c2.calls))

Queries == {"q", "w"}

SearchDepths == {"basic", "advanced", "deep"}

MaxResults == {0, 3, 5, 21}

UrlCounts == {0, 1, 2, 11}

TavilyNext ==
  \/ \E api_key \in ApiKeys : tavily_lifespan(api_key)
  \/ \E query \in Queries, search_depth \in SearchDepths, max_results \in MaxResults,
        reply \in ClientReplies :
       tavily_search(query, search_depth, max_results, reply)
  \/ \E urls \in UrlCounts, reply \in ClientReplies : tavily_extract_content(urls, reply)
  \/ \E query \in Queries, reply \in ClientReplies :
       tavily_get_search_context(query, reply)
  \/ \E query \in Queries, reply \in ClientReplies, reply2 \in ClientReplies :
       tavily_qna_search(query, reply, reply2)

SpecTavily == Init /\ [][TavilyNext]_vars

----
\* Properties

Unchanged == connections = pre.connections /\ current_connection = pre.current_connection

\* The target the last ftp_disconnect call resolved.
LastTarget == disconnect_target(last.arg, pre.current_connection)

\* The first key of conns, in insertion order, other than id; None without one.
FirstOtherKey(conns, id) ==
  LET I == {i \in DOMAIN conns : conns[i].id # id}
  IN  IF I = {} THEN None ELSE conns[CHOOSE i \in I : \A j \in I : i <= j].id

\* C1: after every operation of any sequence of connect, disconnect and switch
\* calls, successful or failing, on live or dead transports, current_connection
\* is None or a key of connections.
C1_RegistryInvariant ==
  current_connection = None \/ current_connection \in Keys(connections)

\* C1 witness: a disconnect removed the current entry and another entry,
\* whose transport is dead, took its place.
C1_Witness ==
  /\ last.op = "ftp_disconnect"
  /\ last.result = "Disconnected"
  /\ pre.current_connection \notin Keys(connections)
  /\ current_connection \in Keys(connections)
  /\ Lookup(connections, current_connection).st = "dead"

\* C2: a ftp_connect that returns "Authentication failed" or "Connection failed"
\* leaves connections and current_connection exactly as they were, and every
\* transport the registry holds has been authenticated.
C2_ConnectFailsAtomically ==
  /\ (last.op = "ftp_connect" /\ last.result \in {"AuthenticationFailed", "ConnectionFailed"})
       => Unchanged
  /\ \A i \in DOMAIN connections : connections[i].ftp.auth

\* C2 witness: bad credentials (login refused) on an empty registry.
C2_Witness ==
  /\ last.op = "ftp_connect"
  /\ last.result = "AuthenticationFailed"
  /\ Len(last.cmds) = 2
  /\ ~last.cmds[2].ok
  /\ connections = <<>>
  /\ current_connection = None

\* C3 (as claimed): right after ftp_connect(id) succeeded, _get_current_ftp
\* returns the transport stored under id and ftp_list_connections reports id as
\* "Active (Current)".
C3_ConnectThenResolve ==
  (last.op = "ftp_connect" /\ last.result = "Connected")
    => /\ last.arg \in Keys(connections)
       /\ get_current_ftp(Registry) =
            [result |-> "Ok", serial |-> Lookup(connections, last.arg).serial]
       /\ \E i \in DOMAIN connections :
            list_connections(connections, current_connection)[i] =
              [id |-> last.arg, status |-> "Active (Current)"]

\* C4: ftp_switch_connection(id) for an id in connections whose NOOP probe
\* raises returns the "no longer active" result and leaves current_connection
\* and connections unchanged; the dead entry stays.
C4_SwitchToDead ==
  (/\ last.op = "ftp_switch_connection"
   /\ last.arg \in Keys(pre.connections)
   /\ Len(last.cmds) = 1
   /\ ~last.cmds[1].ok)
    => /\ last.result = "Stale"
       /\ Unchanged
       /\ last.arg \in Keys(connections)

\* C4 witness: a switch to a dead entry that is not the current one.
C4_Witness ==
  /\ last.op = "ftp_switch_connection"
  /\ last.result = "Stale"
  /\ last.arg \in Keys(connections)
  /\ current_connection \in Keys(connections)
  /\ last.arg # current_connection

\* C5: when ftp_disconnect removes the entry that was current_connection,
\* current_connection becomes the first remaining key in insertion order, or
\* None when nothing remains: a function of the registry before the call.
C5_PromoteFirstRemaining ==
  (/\ last.op = "ftp_disconnect"
   /\ last.result = "Disconnected"
   /\ LastTarget = pre.current_connection)
    => current_connection = FirstOtherKey(pre.connections, LastTarget)

\* C5 witness: the current entry is removed and two entries remain.
C5_Witness ==
  /\ last.op = "ftp_disconnect"
  /\ last.result = "Disconnected"
  /\ LastTarget = pre.current_connection
  /\ Len(connections) = 2

\* C6 (as claimed): ftp_disconnect of an id present in connections always
\* removes that entry and reports success, whatever quit and close did.
C6_DisconnectAlwaysRemoves ==
  (last.op = "ftp_disconnect" /\ last.arg \in Keys(pre.connections))
    => /\ last.result = "Disconnected"
       /\ last.arg \notin Keys(connections)

\* C7 (as claimed): ftp_disconnect() with no argument and no current connection
\* returns "No active connection to disconnect", ftp_disconnect(id) with id not
\* in connections returns not-found; both leave the registry unchanged and
\* close no transport.
C7_UnresolvedDisconnect ==
  /\ (last.op = "ftp_disconnect" /\ last.arg = None /\ pre.current_connection = None)
       => (last.result = "NoActive" /\ Unchanged /\ last.cmds = <<>>)
  /\ (last.op = "ftp_disconnect" /\ last.arg \in Ids /\ last.arg \notin Keys(pre.connections))
       => (last.result = "NotFound" /\ Unchanged /\ last.cmds = <<>>)

\* C8: ftp_switch_connection(id) returns not-found and changes nothing when id
\* is not in connections; with id in connections and a successful probe it sets
\* current_connection = id; it never changes connections.
C8_Switch ==
  last.op = "ftp_switch_connection"
    => /\ last.arg \notin Keys(pre.connections)
            => (last.result = "NotFound" /\ Unchanged)
       /\ (/\ last.arg \in Keys(pre.connections)
           /\ Len(last.cmds) = 1
           /\ last.cmds[1].ok)
            => (last.result = "Switched" /\ current_connection = last.arg)
       /\ connections = pre.connections

\* C8 witness: a successful switch away from another current connection.
C8_Witness ==
  /\ last.op = "ftp_switch_connection"
  /\ last.result = "Switched"
  /\ pre.current_connection \in Keys(connections)
  /\ pre.current_connection # last.arg

\* Handlers and events other than connect, disconnect and switch.
IsSessionOp ==
  last.op \notin {"init", "ftp_connect", "ftp_disconnect", "ftp_switch_connection"}

\* C9: keys leave connections only through a successful ftp_disconnect; the
\* listing, every handler working through the current session and the
\* resources, succeeding or failing, on a live or a dead session, leave the
\* mapping id -> transport and current_connection as they were.
C9_OnlyDisconnectRemoves ==
  /\ (last.op = "ftp_disconnect" /\ last.result = "Disconnected")
       \/ Keys(pre.connections) \subseteq Keys(connections)
  /\ IsSessionOp
       => /\ Mapping(connections) = Mapping(pre.connections)
          /\ current_connection = pre.current_connection

\* C9 witness: a listing that found a dead entry.
C9_Witness ==
  /\ last.op = "ftp_list_connections"
  /\ \E i \in DOMAIN last.status : last.status[i].status = "Disconnected"

\* C10: ftp_list_connections returns one status per key of connections and
\* never fails: "Disconnected" exactly when the entry's probe raised, "Active
\* (Current)" exactly when the probe succeeded and the key is
\* current_connection, "Active" otherwise; at most one entry is current.
C10_ListStatuses ==
  last.op = "ftp_list_connections"
    => /\ last.result = "Ok"
       /\ DOMAIN last.status = DOMAIN pre.connections
       /\ DOMAIN last.cmds = DOMAIN pre.connections
       /\ \A i \in DOMAIN last.status :
            /\ last.status[i].id = pre.connections[i].id
            /\ \A j \in DOMAIN last.status : last.status[j].id = last.status[i].id => j = i
            /\ last.status[i].status = "Disconnected" <=> ~last.cmds[i].ok
            /\ last.status[i].status = "Active (Current)"
                 <=> (last.cmds[i].ok /\ last.status[i].id = pre.current_connection)
            /\ last.status[i].status \in {"Disconnected", "Active (Current)", "Active"}
       /\ Cardinality({i \in DOMAIN last.status :
                         last.status[i].status = "Active (Current)"}) <= 1

\* C10 witness: a listing with a dead entry, the current entry and another live one.
C10_Witness ==
  /\ last.op = "ftp_list_connections"
  /\ \E i, j, k \in DOMAIN last.status :
       /\ last.status[i].status = "Disconnected"
       /\ last.status[j].status = "Active (Current)"
       /\ last.status[k].status = "Active"

\* C11: _get_current_ftp raises 'No active FTP connection' exactly when
\* current_connection is empty (None), raises "Connection ... not found" exactly
\* when current_connection is set and is no key of connections, and returns
\* connections[current_connection] in every other case.  (It is a pure function
\* of the registry: it sends nothing and assigns nothing.)
C11_ResolveCurrent ==
  LET r == get_current_ftp(Registry)
  IN  /\ r.result = "NoActive" <=> current_connection = None
      /\ r.result = "NotFound" <=>
            (current_connection # None /\ current_connection \notin Keys(connections))
      /\ r.result = "Ok" =>
            /\ current_connection \in Keys(connections)
            /\ r.serial = Lookup(connections, current_connection).serial

Serials(conns) == {conns[i].ftp.serial : i \in DOMAIN conns}

\* The entry ftp_disconnect removed in the last step.
Removed == Lookup(pre.connections, LastTarget)

\* C12: a transport is used only between its successful ftp_connect and its
\* removal by ftp_disconnect.  ftp_connect works on a new FTP object, which is
\* no object the registry held before (so never one that was removed); every
\* other handler sends commands only to transports the registry holds when the
\* handler starts, all of them logged in; the transport ftp_disconnect removed
\* is in the registry no more; and a handler that needs the current session
\* when _get_current_ftp finds none fails without sending anything.
C12_SessionLifecycle ==
  /\ \A s \in Serials(connections) : s < nextFtp
  /\ last.op = "ftp_connect" =>
        \A k \in DOMAIN last.cmds :
          /\ last.cmds[k].serial = nextFtp - 1
          /\ last.cmds[k].serial \notin Serials(pre.connections)
  /\ last.op # "ftp_connect" =>
        \A k \in DOMAIN last.cmds :
          \E i \in DOMAIN pre.connections :
            /\ pre.connections[i].ftp.serial = last.cmds[k].serial
            /\ pre.connections[i].ftp.auth
  /\ (last.op = "ftp_disconnect" /\ last.result = "Disconnected") =>
        Removed.serial \notin Serials(connections)
  /\ (IsSessionOp /\ last.op \notin {"ftp_list_connections", "get_connections_status",
                                      "transport_dies"}
         /\ get_current_ftp(pre).result # "Ok") =>
        (last.cmds = <<>> /\ last.result \in {"Error", "NoActive", "NotFound"})

\* C12 witness: ftp_disconnect removed the only session, a logged-in transport
\* that had been the current one; the registry resolves no session any more.
C12_Witness ==
  /\ last.op = "ftp_disconnect"
  /\ last.result = "Disconnected"
  /\ Removed.auth
  /\ connections = <<>>
  /\ get_current_ftp(Registry).result = "NoActive"

\* C17: a successful ftp_connect with an id the registry already holds
\* overwrites the entry: the keys (and their order) stay as they were, the id
\* maps to the new transport, the other entries are untouched,
\* current_connection is the id, and the transport the id had before gets no
\* call at all, neither quit nor close.
C17_ConnectOverwrites ==
  (/\ last.op = "ftp_connect"
   /\ last.result = "Connected"
   /\ last.arg \in Keys(pre.connections)) =>
    LET old == Lookup(pre.connections, last.arg)
        new == Lookup(connections, last.arg)
    IN  /\ DOMAIN connections = DOMAIN pre.connections
        /\ \A i \in DOMAIN connections :
              /\ connections[i].id = pre.connections[i].id
              /\ connections[i].id # last.arg => connections[i] = pre.connections[i]
        /\ new.serial = nextFtp - 1
        /\ new.serial # old.serial
        /\ new.st = "live" /\ new.auth
        /\ current_connection = last.arg
        /\ \A k \in DOMAIN last.cmds : last.cmds[k].serial # old.serial

\* C17 witness: an id that was not the current one, and whose transport was
\* still open, was connected again.
C17_Witness ==
  /\ last.op = "ftp_connect"
  /\ last.result = "Connected"
  /\ last.arg \in Keys(pre.connections)
  /\ pre.current_connection # last.arg
  /\ Lookup(pre.connections, last.arg).st = "live"
  /\ Len(connections) = 2

\* The transports that were stored by a successful ftp_connect and not closed
\* by ftp_disconnect since, as the teardown found them: the ones in the dict
\* and the ones a later ftp_connect with the same id replaced.
LiveAtShutdown ==
  {pre.connections[i].ftp : i \in DOMAIN pre.connections}
    \cup {t \in detached : t.st # "closed"}

\* ftp got its close attempt in cmds: a quit, and a close when the quit failed.
CloseAttempted(ftp, cmds) ==
  \E k \in DOMAIN cmds :
    /\ cmds[k].serial = ftp.serial
    /\ cmds[k].cmd = "quit"
    /\ ~cmds[k].ok =>
         /\ k + 1 \in DOMAIN cmds
         /\ cmds[k + 1].serial = ftp.serial
         /\ cmds[k + 1].cmd = "close"

\* C16: when the teardown of ftp_lifespan has run, every transport that was
\* successfully connected and not yet disconnected has had its close attempt
\* (quit, and close when quit failed), whatever the attempts on the others
\* did, and connections is empty.
C16_TeardownClosesAll ==
  last.op = "ftp_lifespan" =>
    /\ connections = <<>>
    /\ \A ftp \in LiveAtShutdown : CloseAttempted(ftp, last.cmds)

\* The part of C16 that the loop does keep: every transport still in the dict
\* gets its attempt, also after a close() that raised, and the dict is cleared.
TeardownClosesRegistered ==
  last.op = "ftp_lifespan" =>
    /\ connections = <<>>
    /\ \A i \in DOMAIN pre.connections : CloseAttempted(pre.connections[i].ftp, last.cmds)

\* C18: no tool handler lets an exception out: whether the server fails or no
\* connection is active, the caller gets an error payload, from
\* ftp_list_directory as from the others.
C18_NoExceptionEscapes == last.result # "Raised"

\* ftp_list_directory returned a listing for the directory held in remote.
Listed == last.op = "ftp_list_directory" /\ last.result = "Ok"

\* The entries of the listed directory other than '.' and '..'.
RawOthers == {i \in DOMAIN remote : remote[i].name \notin DotNames}

NoDotEntries(files) == \A i \in DOMAIN files : files[i].name \notin DotNames

\* All directories before all files, each group by case-insensitive name.
DirsFirstByName(files) ==
  \A i, j \in DOMAIN files :
    i < j =>
      /\ files[i].type = "file" => files[j].type = "file"
      /\ files[i].type = files[j].type =>
           ~str_less(str_lower(files[j].name), str_lower(files[i].name))

\* Every raw entry other than '.' and '..' is one entry of files, with its
\* name and kind, and files has no other entry.
EveryRawOnce(files) ==
  /\ Len(files) = Cardinality(RawOthers)
  /\ \A i \in RawOthers :
       Cardinality({k \in DOMAIN files :
                      /\ files[k].name = remote[i].name
                      /\ (files[k].type = "directory") = (remote[i].kind = "dir")}) = 1

\* C19 as stated: whatever the directory holds and whichever of MLSD, LIST and
\* NLST answered, the listing returned has no '.' and no '..', has every other
\* raw entry exactly once, and has the directories first and each group in
\* case-insensitive name order.
C19_NormalizedListing ==
  Listed =>
    /\ NoDotEntries(last.status)
    /\ DirsFirstByName(last.status)
    /\ EveryRawOnce(last.status)

\* The LIST lines of the listed directory that split into at least 9 tokens
\* and whose tokens from the ninth on do not spell '.' or '..'.
ListLinesKept ==
  {i \in DOMAIN remote :
     LET parts == split(list_line(remote[i], last.server))
     IN  /\ Len(parts) >= 9
         /\ join(SubSeq(parts, 9, Len(parts))) \notin DotNames}

\* C19 amended: the listing returned never has '.' or '..' and always has the
\* directories first and each group in case-insensitive name order.  It has
\* every other raw entry exactly once when MLSD or NLST answered and when LIST
\* answered with nine-column lines; of a LIST reply it has one entry for each
\* line of at least 9 tokens and none for a line of fewer, so an eight-column
\* reply loses the entries whose names have no blank.
C19_NormalizedListingAmended ==
  Listed =>
    /\ NoDotEntries(last.status)
    /\ DirsFirstByName(last.status)
    /\ (last.mech \in {"MLSD", "NLST"} \/ last.server = "list_long") =>
         EveryRawOnce(last.status)
    /\ last.mech = "LIST" =>
         /\ Len(last.status) = Cardinality(ListLinesKept)
         /\ \A i \in DOMAIN remote \ ListLinesKept :
              \A k \in DOMAIN last.status : last.status[k].name # remote[i].name

\* C19 witness: LIST answered with nine-column lines for '.', 'B' and 'a' (in
\* some order); the listing is 'a', 'B'.
C19_Witness ==
  /\ Listed
  /\ last.mech = "LIST"
  /\ last.server = "list_long"
  /\ {remote[i].name : i \in DOMAIN remote} = {<<46>>, <<66>>, <<97>>}
  /\ Len(last.status) = 2
  /\ last.status[1].name = <<97>>
  /\ last.status[2].name = <<66>>

Issued(c) == \E k \in DOMAIN last.cmds : last.cmds[k].cmd = c

Failed(c) == \E k \in DOMAIN last.cmds : last.cmds[k].cmd = c /\ ~last.cmds[k].ok

\* ftp_list_directory got as far as asking the server for the listing.
ListingAsked ==
  last.op = "ftp_list_directory" /\ (Issued("MLSD") \/ Issued("NLST"))

C13_CurrentNeverDangles ==
  current_connection # None =>
    \E i \in DOMAIN connections : connections[i].id = current_connection

\* C13 witness: ftp_disconnect removed the entry that a ftp_connect, still
\* suspended at its last await, had stored and made current.
C13_Witness ==
  /\ last.op = "ftp_disconnect"
  /\ last.result = "Disconnected"
  /\ \E t \in DOMAIN tasks :
       /\ tasks[t].op = "ftp_connect"
       /\ tasks[t].pc = "welcome"
       /\ tasks[t].arg = pre.current_connection
       /\ tasks[t].arg \notin Keys(connections)
       /\ tasks[t].ftp = Removed.serial

\* The frames of the handlers other than the one that made the last step (a
\* handler that has just suspended itself is the last frame).
OtherFrames ==
  IF last.result = "Suspended" THEN 1..(Len(tasks) - 1) ELSE DOMAIN tasks

\* C14: no upload or download handler sends its transfer command (STOR, RETR)
\* on a transport that ftp_disconnect closed while the handler, having
\* resolved the session, was suspended at its awaited log call.
C14_TransferNeverOnClosed ==
  (last.op \in {"ftp_upload_file", "ftp_download_content"}
     /\ (Issued("STOR") \/ Issued("RETR"))) =>
    last.text # "closed"

\* C15: a transport is used by one handler at a time: no handler sends commands
\* on a transport on which a suspended handler has sent some of its commands
\* and has more to send (a listing between MLSD and LIST, a download between
\* SIZE and RETR).
C15_OneOperationPerTransport ==
  \A k \in DOMAIN last.cmds :
    \A t \in OtherFrames :
      tasks[t].pc \in {"list", "retr"} => tasks[t].ftp # last.cmds[k].serial

\* C29: a ftp_disconnect that removed an entry other than the current one
\* leaves current_connection as it was; and after every successful
\* ftp_disconnect the other entries are the ones of before, with the same
\* transports in the same state and in the same insertion order, and the
\* handler sent no command on any of them.
C29_DisconnectFrame ==
  (last.op = "ftp_disconnect" /\ last.result = "Disconnected")
    => /\ LastTarget # pre.current_connection
            => current_connection = pre.current_connection
       /\ connections =
            SelectSeq(pre.connections, LAMBDA e : e.id # LastTarget)
       /\ \A i \in DOMAIN last.cmds :
            last.cmds[i].serial = Lookup(pre.connections, LastTarget).serial

\* C29 witness: with three entries, one that is neither the current one nor
\* the first one was removed, and the two others are still there.
C29_Witness ==
  /\ last.op = "ftp_disconnect"
  /\ last.result = "Disconnected"
  /\ Len(pre.connections) = 3
  /\ LastTarget # pre.current_connection
  /\ pre.current_connection # pre.connections[1].id
  /\ Len(connections) = 2
  /\ current_connection = pre.current_connection

\* C27 (as claimed): ftp_list_directory leaves the session's remote working
\* directory as it found it, on every path: with or without a directory
\* argument, whichever mechanism answered, whether it returned or raised.
C27_ListKeepsWorkingDirectory ==
  (last.op = "ftp_list_directory" /\ pre.current_connection \in Keys(pre.connections))
    => Lookup(connections, pre.current_connection).cwd =
         Lookup(pre.connections, pre.current_connection).cwd

\* The words of the line the last parse was given.
ParsedTokens == split(last.arg)

\* The entry a line of at least 9 words stands for: permissions is word 0, the
\* type is directory exactly when word 0 starts with 'd', the size is word 4
\* as an integer for a file (none when it is no integer) and none for a
\* directory, the name is words 8 onward joined by single blanks.
EntryOf(parts) ==
  LET dir == parts[1][1] = 100
  IN  [name |-> join(SubSeq(parts, 9, Len(parts))),
       type |-> IF dir THEN "directory" ELSE "file",
       size |-> IF dir THEN <<>> ELSE int(parts[5]),
       permissions |-> parts[1]]

\* C28 (as claimed): a LIST line of fewer than 9 words gives no entry, and
\* every line of at least 9 words gives exactly one entry, the one described
\* above.
C28_LegacyListParse ==
  last.op = "list_entry"
    => IF Len(ParsedTokens) < 9 THEN last.status = <<>>
       ELSE last.status = <<EntryOf(ParsedTokens)>>

\* C28 (amended): a LIST line of fewer than 9 words gives no entry; a line of
\* at least 9 words whose name is '.' or '..' gives none either; every other
\* line of at least 9 words gives exactly the one entry described above.
C28_LegacyListParseAmended ==
  last.op = "list_entry"
    => IF Len(ParsedTokens) < 9 THEN last.status = <<>>
       ELSE IF join(SubSeq(ParsedTokens, 9, Len(ParsedTokens))) \in DotNames
         THEN last.status = <<>>
       ELSE last.status = <<EntryOf(ParsedTokens)>>

\* C28 witness: a directory line with a name of two words separated by two
\* blanks gave one entry, without size and with the name joined by one blank.
C28_Witness ==
  /\ last.op = "list_entry"
  /\ Len(ParsedTokens) = 10
  /\ Len(last.arg) > Len(join(ParsedTokens))
  /\ Len(last.status) = 1
  /\ last.status[1].type = "directory"
  /\ last.status[1].size = <<>>
  /\ last.status[1].name = <<97, 32, 45, 62>>

\* C21: when SIZE reports more than max_size_mb * 1024 * 1024 bytes,
\* ftp_download_content returns the too-large error with the reported size and
\* sends no RETR; a reported size equal to that maximum is not refused as too
\* large.
C21_SizePrecheck ==
  (last.op = "ftp_download_content" /\ last.reported # <<>>)
    => /\ last.reported[1] > last.max_size_mb * Mb
            => /\ last.result = "TooLarge"
               /\ last.size = last.reported
               /\ \A i \in DOMAIN last.cmds : last.cmds[i].cmd # "RETR"
       /\ last.reported[1] = last.max_size_mb * Mb => last.result # "TooLarge"

\* C21 witness: with max_size_mb = 1 a file reported as 1 MB and one byte was
\* refused after the SIZE command alone.
C21_Witness ==
  /\ last.op = "ftp_download_content"
  /\ last.max_size_mb = 1
  /\ last.reported = <<Mb + 1>>
  /\ last.result = "TooLarge"
  /\ Len(last.cmds) = 1

\* C21 witness, the boundary: with max_size_mb = 1 a file reported as exactly
\* 1 MB was downloaded.
C21_WitnessEqual ==
  /\ last.op = "ftp_download_content"
  /\ last.max_size_mb = 1
  /\ last.reported = <<Mb>>
  /\ last.result = "Content"

\* C22 (as claimed): ftp_download_content never returns content of more than
\* max_size_mb * 1024 * 1024 bytes, whether or not the server answers SIZE.
C22_ContentBounded ==
  (last.op = "ftp_download_content" /\ last.result = "Content")
    => last.size[1] <= last.max_size_mb * Mb

\* C25: a binary download to a local path that directly follows a successful
\* binary upload of another local file to the same remote name leaves a
\* local file with the bytes of the uploaded one, and the upload reported
\* that file's byte count.
C25_RoundTrip ==
  (/\ last.op = "ftp_download_file"
   /\ last.result = "Ok"
   /\ last.binary
   /\ last.before.op = "ftp_upload_file"
   /\ last.before.result = "Ok"
   /\ last.before.binary
   /\ last.before.remote = last.remote
   /\ last.arg # last.before.arg)
    => /\ local[last.before.arg] # <<>>
       /\ local[last.arg] = local[last.before.arg]
       /\ last.before.size = <<Len(local[last.before.arg][1])>>

\* C25 witness: the file 'a\nb' went up and came back under another path,
\* line feed included.
C25_Witness ==
  /\ last.op = "ftp_download_file"
  /\ last.result = "Ok"
  /\ last.binary
  /\ last.before.op = "ftp_upload_file"
  /\ last.before.result = "Ok"
  /\ last.before.binary
  /\ last.before.remote = last.remote
  /\ last.arg # last.before.arg
  /\ local[last.arg] = << <<97, 10, 98>> >>
  /\ last.before.size = <<3>>

\* The non-empty segments of the path the last ftp_create_directory_tree was
\* given.
TreeSegments == SelectSeq(str_split(str_strip(last.arg)), LAMBDA part : part # <<>>)

\* segs joined by slashes.
RECURSIVE Slashed(_)
Slashed(segs) ==
  IF Len(segs) = 1 THEN segs[1]
  ELSE Slashed(SubSeq(segs, 1, Len(segs) - 1)) \o <<47>> \o segs[Len(segs)]

\* The cumulative prefixes of the path, shortest first.
TreePrefixes == [i \in 1..Len(TreeSegments) |-> Slashed(SubSeq(TreeSegments, 1, i))]

\* The prefixes the last call tried, in the order of its MKD commands.
TreeTried == [i \in DOMAIN last.mkd |-> last.mkd[i].path]

\* The prefixes whose MKD succeeded, in that order.
TreeCreated ==
  LET made == SelectSeq(last.mkd, LAMBDA a : a.reply = "created")
  IN  [i \in DOMAIN made |-> made[i].path]

\* The last MKD failed otherwise than with an 'already exists' error.
TreeFatal ==
  last.mkd # <<>> /\ last.mkd[Len(last.mkd)].reply \in {"refused", "lost"}

\* C23: ftp_create_directory_tree sends MKD for the cumulative prefixes of the
\* path's non-empty segments, shortest first, and goes on to the next prefix
\* after a success and after an 'already exists' error; when it returns
\* without error it has tried them all, its message lists exactly the
\* prefixes whose MKD succeeded, in order, or says that the path already
\* exists when there is none.
C23_CreateTree ==
  last.op = "ftp_create_directory_tree"
    => /\ Len(TreeTried) <= Len(TreePrefixes)
       /\ TreeTried = SubSeq(TreePrefixes, 1, Len(TreeTried))
       /\ \A i \in DOMAIN last.mkd :
            i < Len(last.mkd) => last.mkd[i].reply \in {"created", "exists"}
       /\ (Len(TreeTried) < Len(TreePrefixes) /\ pre.connections # <<>>) => TreeFatal
       /\ last.result # "Error"
            => /\ TreeTried = TreePrefixes
               /\ last.status = TreeCreated
               /\ last.result = IF TreeCreated = <<>> THEN "Exists" ELSE "Created"

\* C23 witness: '/a/b/c' where only a exists: three MKD, the first answered
\* with an 'already exists' error, and the message lists a/b and a/b/c.
C23_Witness ==
  /\ last.op = "ftp_create_directory_tree"
  /\ last.arg = <<47, 97, 47, 98, 47, 99>>
  /\ last.result = "Created"
  /\ Len(last.mkd) = 3
  /\ last.mkd[1].reply = "exists"
  /\ last.status = << <<97, 47, 98>>, <<97, 47, 98, 47, 99>> >>
  /\ site.dirs = TreeNames

TavilyTools ==
  {"tavily_search", "tavily_extract_content", "tavily_get_search_context",
   "tavily_qna_search"}

\* C26: without an API key (TAVILY_API_KEY not set, or empty) each of the four
\* search tools fails with the key-not-found error, which no call made with
\* a key reports, and makes no request through the client; the server goes
\* on serving with its context unchanged.
C26_MissingCredential ==
  last.op \in TavilyTools
    => /\ tavily.serving
       /\ IF Falsy(tavily.api_key)
            THEN /\ last.result = "Raised"
                 /\ last.text = "KeyNotFound"
                 /\ last.cmds = <<>>
                 /\ tavily.client = None
            ELSE last.text # "KeyNotFound"

\* C26 witness: tavily_qna_search on a server started with an empty key.
C26_Witness ==
  /\ last.op = "tavily_qna_search"
  /\ tavily.serving
  /\ tavily.api_key = ""
  /\ last.result = "Raised"
  /\ last.text = "KeyNotFound"
  /\ last.cmds = <<>>

\* C30 (as claimed): when ftp_explore_directory answers success=true the
\* session's working directory is the "directory" of the answer, and when it
\* answers success=false after cwd(directory) was refused the working
\* directory is the "original_directory" of the answer.
C30_ExploreReportsPosition ==
  (last.op = "ftp_explore_directory" /\ pre.current_connection \in Keys(pre.connections))
    => LET cwd == Lookup(connections, pre.current_connection).cwd
       IN  /\ last.result = "Success" => cwd = last.text
           /\ (/\ last.result = "Failure"
               /\ last.branch = "rejected"
               /\ Len(last.cmds) = 2)
                => cwd = last.original

====
